---- MODULE Spec2Model ----
(***************************************************************************)
(* Dual-index retrieval engine of Lawgorithm.                              *)
(*                                                                         *)
(* The module models OptimizedDualRAGInterface (rag_ready/), the class     *)
(* that loads the two persisted FAISS indexes, pre-filters, searches both  *)
(* spaces in a two-worker thread pool and caches embeddings and results,   *)
(* together with the sequential dual_search of DualRAGProcessor and the    *)
(* single-store searches of rag/ and rag_ollama_integration/.              *)
(*                                                                         *)
(* Abstractions:                                                           *)
(*  - a text is a sequence of word tokens; substring tests are tests for   *)
(*    a contiguous run of tokens;                                          *)
(*  - a vector is [dir, norm]; the inner product of two vectors is         *)
(*    Cos(dir, dir) * norm * norm, an integer-scaled cosine;               *)
(*  - a FAISS index is its cardinality ntotal; vector i of a space is      *)
(*    IndexVector(space, i);                                               *)
(*  - a duration is a natural number of clock ticks.                       *)
(***************************************************************************)
EXTENDS Integers, Sequences, FiniteSets, TLC

\* ------------------------------------------------------------------ bounds
\* Largest index cardinality and largest document-array length on disk.
MaxN == 2
\* Number of retrieve/search calls explored in one run.
MaxCalls == 3
\* Capacity of the embedding LRU cache, lru_cache(maxsize=1000), scaled down.
MaxCacheSize == 2

\* ------------------------------------------------------------ basic values
None == "None"
Spaces == {"structure", "content"}
Other(s) == IF s = "structure" THEN "content" ELSE "structure"

\* The k values tried: the smallest, the largest index cardinality, and one
\* above every index cardinality.
Ks == {1, MaxN, MaxN + 1}
\* Measured durations (time.time() differences), in clock ticks.
Durations == {0, 1}

\* The attempts of one retry loop that are followed.
MaxAttempts == 4

\* A per-chunk context budget, in tokens (the sibling interface cuts each
\* document to 1500 characters).
ContextBudget == 1
MaxTextLen == 5
MaxChunkSize == 4
MaxSteps == 6
MaxSupersteps == 24
MaxHistory == 4

\* Query texts, as token sequences.
Queries == { <<"bail">>, <<"Delhi", "contract">> }

\* ------------------------------------------------------------------ corpus
\* The records a documents file may hold, in file order.  AbsentField marks
\* a key the JSON record does not have, NullField a key whose value is null
\* (None once loaded).
AbsentField == << "<absent>" >>
NullField == << "<null>" >>

StructureCorpus ==
    << [id |-> 1, title |-> <<"Bail", "order">>, court |-> <<"Delhi">>,
        text |-> <<"bail", "granted">>],
       [id |-> 2, title |-> AbsentField, court |-> AbsentField,
        text |-> <<"header">>],
       [id |-> 3, title |-> <<"Contract", "breach">>, court |-> AbsentField,
        text |-> <<"agreement">>] >>

ContentCorpus ==
    << [id |-> 11, title |-> <<"Property", "damages">>, court |-> AbsentField,
        text |-> <<"contract", "facts">>],
       [id |-> 12, title |-> AbsentField, court |-> <<"Delhi">>,
        text |-> <<"judgment">>],
       [id |-> 13, title |-> <<"Bail", "appeal">>, court |-> AbsentField,
        text |-> <<"bail">>] >>

Corpus(s) == IF s = "structure" THEN StructureCorpus ELSE ContentCorpus

\* The first m records of a space's corpus: the content of a documents file.
DocumentsFile(s, m) == SubSeq(Corpus(s), 1, m)

\* ----------------------------------------------------------------- vectors
Abs(x) == IF x < 0 THEN -x ELSE x

\* Integer-scaled cosine of two directions.
Cos(a, b) == 4 - 3 * Abs(a - b)

InnerProduct(u, v) == Cos(u.dir, v.dir) * u.norm * v.norm

\* Vector number i (0-based label) of the persisted index of a space.
IndexVector(s, i) ==
    [dir |-> IF s = "structure" THEN i % 3 ELSE (i + 1) % 3, norm |-> 1]

\* SentenceTransformer.encode([text]): deterministic in (text, model); the
\* norm of the output is the model's business, not the caller's.
Encode(text, s) ==
    [dir  |-> IF (Len(text) = 1) = (s = "structure") THEN 0 ELSE 1,
     norm |-> Len(text)]

\* faiss.normalize_L2: rescales to unit norm.
normalize_L2(v) == [v EXCEPT !.norm = 1]

\* ------------------------------------------------------------ FAISS search
\* Score FAISS reports for a result slot it could not fill (-FLT_MAX for an
\* inner-product index), with label -1.
UnfilledScore == -1000

\* The label of S with the highest inner product against e (lowest label
\* among equals).
BestLabel(s, S, e) ==
    CHOOSE i \in S :
        \A j \in S :
            \/ InnerProduct(e, IndexVector(s, i)) > InnerProduct(e, IndexVector(s, j))
            \/ /\ InnerProduct(e, IndexVector(s, i)) = InnerProduct(e, IndexVector(s, j))
               /\ i <= j

RECURSIVE Nearest(_, _, _, _)
\* The k nearest labels of S, best first; fewer when S runs out.
Nearest(s, S, e, k) ==
    IF k = 0 \/ S = {} THEN << >>
    ELSE LET b == BestLabel(s, S, e)
         IN  << [score |-> InnerProduct(e, IndexVector(s, b)), idx |-> b] >>
             \o Nearest(s, S \ {b}, e, k - 1)

\* index.search(query_embedding, k) on an index of ntotal vectors: exactly k
\* (score, label) slots, the nearest first, the unfilled ones (-FLT_MAX, -1).
faiss_search(s, ntotal, e, k) ==
    LET found == Nearest(s, 0..(ntotal - 1), e, k)
    IN  found \o [i \in 1..(k - Len(found)) |-> [score |-> UnfilledScore, idx |-> -1]]

\* ------------------------------------------------------- result building
\* Python list indexing docs[idx]: a negative idx counts from the end.
PyInRange(docs, idx) == idx < Len(docs) /\ idx >= -Len(docs)
PyItem(docs, idx) == IF idx >= 0 THEN docs[idx + 1] ELSE docs[Len(docs) + idx + 1]

\* The guard of the result loop: `if idx < len(self.structure_documents)`.
SlotAccepted(docs, idx) == idx < Len(docs)

RECURSIVE BuildResults(_, _, _)
\* The loop `for i, (score, idx) in enumerate(zip(scores[0], indices[0]))`
\* from slot i on: each accepted slot appends a copy of docs[idx] with its
\* score and rank = i + 1 (i 0-based; here slots are numbered from 1).
\* An accepted slot whose docs[idx] does not exist raises IndexError.
BuildResults(docs, hits, i) ==
    IF i > Len(hits) THEN [raised |-> FALSE, results |-> << >>]
    ELSE LET h == hits[i]
             rest == BuildResults(docs, hits, i + 1)
         IN  IF ~SlotAccepted(docs, h.idx) THEN rest
             ELSE IF ~PyInRange(docs, h.idx)
                  THEN [raised |-> TRUE, results |-> << >>]
             ELSE IF rest.raised THEN rest
             ELSE [raised |-> FALSE,
                   results |-> << [doc |-> PyItem(docs, h.idx),
                                   score |-> h.score,
                                   rank |-> i] >> \o rest.results]

\* ------------------------------------------------------------ pre-filter
\* str.lower() on one token.
LowerToken(t) ==
    CASE t = "Bail" -> "bail"
      [] t = "Delhi" -> "delhi"
      [] t = "Contract" -> "contract"
      [] t = "Property" -> "property"
      [] OTHER -> t

\* str.lower() on a text.
Lower(text) == [i \in 1..Len(text) |-> LowerToken(text[i])]

\* dict.get(field, ''): the field, or the empty text when the key is absent.
GetText(doc, field) == IF doc[field] = AbsentField THEN << >> ELSE doc[field]

\* `needle in hay` for texts: needle occurs as a contiguous run of hay.
Contains(hay, needle) ==
    \E i \in 0..(Len(hay) - Len(needle)) :
        \A j \in 1..Len(needle) : hay[i + j] = needle[j]

\* The taxonomy of extract_case_type, in dictionary order.
case_types ==
    << [type |-> "contract",       keywords |-> {"contract", "agreement", "breach"}],
       [type |-> "criminal",       keywords |-> {"criminal", "bail", "appeal", "conviction"}],
       [type |-> "civil",          keywords |-> {"civil", "property", "damages"}],
       [type |-> "constitutional", keywords |-> {"constitutional", "fundamental", "rights"}],
       [type |-> "family",         keywords |-> {"family", "divorce", "custody"}],
       [type |-> "commercial",     keywords |-> {"commercial", "business", "corporate"}] >>

\* extract_case_type(title): the first taxonomy entry one of whose keywords
\* occurs in title.lower(); None when there is none.
extract_case_type(title) ==
    LET hit(i) == \E kw \in case_types[i].keywords : Contains(Lower(title), <<kw>>)
        hits == {i \in 1..Len(case_types) : hit(i)}
    IN  IF hits = {} THEN None
        ELSE case_types[CHOOSE i \in hits : \A j \in hits : i <= j].type

\* build_filters: `self.extract_case_type(doc['title'])`.
BuildCaseType(doc) == extract_case_type(doc.title)

\* build_filters(): the courts and case types of the loaded documents.
BuildFilters(sdocs, cdocs) ==
    LET all == {sdocs[i] : i \in 1..Len(sdocs)} \cup {cdocs[i] : i \in 1..Len(cdocs)}
    IN  [courts     |-> {d.court : d \in {x \in all : x.court # AbsentField}},
         case_types |-> {BuildCaseType(d) :
                            d \in {x \in all : x.title # AbsentField}} \ {None},
         keywords   |-> {}]

\* A query tagger that scans the taxonomy from its last entry.
QueryCaseType_LastMatch(query) ==
    LET hits == {i \in 1..Len(case_types) :
                    \E kw \in case_types[i].keywords : Contains(Lower(query), <<kw>>)}
    IN  IF hits = {} THEN None
        ELSE case_types[CHOOSE i \in hits : \A j \in hits : i >= j].type

\* pre_filter_documents: `case_type = self.extract_case_type(query)`.
QueryCaseType(query) == extract_case_type(query)

\* pre_filter_documents: `self.extract_case_type(doc.get('title', ''))`.
TitleCaseType(doc) == extract_case_type(GetText(doc, "title"))

\* The pre-filter score of one document, in half points (case type 3 -> 6,
\* court 2 -> 4, each query keyword found in title + ' ' + text 0.5 -> 1).
PreFilterScore(doc, query, filters) ==
    LET query_lower == Lower(query)
        case_type   == QueryCaseType(query)
        courts      == {c \in filters.courts : Contains(query_lower, Lower(c))}
        doc_lower   == Lower(GetText(doc, "title") \o GetText(doc, "text"))
        matches     == Cardinality({i \in 1..Len(query_lower) :
                                      Contains(doc_lower, <<query_lower[i]>>)})
    IN  (IF case_type # None /\ TitleCaseType(doc) = case_type
         THEN 6 ELSE 0)
      + (IF courts # {} /\ Lower(GetText(doc, "court")) \in {Lower(c) : c \in courts}
         THEN 4 ELSE 0)
      + matches

\* pre_filter_documents(query), for one document array: the (0-based)
\* positions of the documents that score above 0.
PreFilter(docs, query, filters) ==
    {i \in 0..(Len(docs) - 1) : PreFilterScore(docs[i + 1], query, filters) > 0}

\* ------------------------------------------------------------- cache keys
DigitToken(d) ==
    CASE d = 0 -> "0" [] d = 1 -> "1" [] d = 2 -> "2" [] d = 3 -> "3" [] d = 4 -> "4"
      [] d = 5 -> "5" [] d = 6 -> "6" [] d = 7 -> "7" [] d = 8 -> "8" [] OTHER -> "9"

RECURSIVE Str(_)
\* str(k) for k >= 0, one token per digit.
Str(k) == IF k < 10 THEN <<DigitToken(k)>> ELSE Str(k \div 10) \o <<DigitToken(k % 10)>>

\* cache_key = f"{query}_{k}"
CacheKey(query, k) == query \o <<"_">> \o Str(k)

\* ------------------------------------------------------------------ state
VARIABLES
    disk,                 \* the index directory: per space, the index file and documents file
    loaded,               \* the constructor has run
    structure_index,      \* the loaded index (NoIndex stands for None)
    structure_documents,  \* the loaded document array
    content_index,
    content_documents,
    metadata_filters,     \* build_filters() output
    query_cache,          \* dict: cache key -> result dict
    embedding_cache,      \* lru_cache of get_cached_embedding, oldest entry first
    call,                 \* the call in progress on the caller's thread
    task,                 \* the two searches of the call: state, embedding in hand, outcome
    ret,                  \* outcome of the last finished call
    history,              \* cache key -> the value optimized_dual_search last returned for it
    steps,                \* the work the last call has run
    calls,                \* number of calls started
    store,                \* a single-store retriever: its class and its loaded arrays
    store_ret,            \* outcome of the last search_similar on the store
    builder_in,           \* the processed records handed to the index builder
    documents_file,       \* per space, the records of the documents file on disk
    filter_ret,           \* outcome of the last build_filters / pre_filter_documents
    gemini,               \* GeminiService: its fields
    document,             \* the frame of generate_complete_document_iterative
    retry,                \* the frame of _generate_with_retry
    gemini_ret,           \* what generate_complete_document_iterative last returned
    query_ret,            \* what OptimizedDualRAGInterface.query last returned
    builder,              \* a DualRAGProcessor that builds, saves and loads, with its directory
    splitter,             \* the frame of _split_text_by_size
    workflow,             \* the state of the petition workflow graph
    manager,              \* StateManager and the state object its caller holds
    embedder,             \* OptimizedLawgorithmRAGInterface: embedding caches and backend
    petition              \* PetitionService and the call on it

retrieverVars == << disk, loaded, structure_index, structure_documents, content_index,
                    content_documents, metadata_filters, query_cache, embedding_cache,
                    call, task, ret, history, steps, calls >>

storeVars == << store, store_ret >>

filterVars == << builder_in, documents_file, filter_ret >>

\* The state of the components other than the dual retriever and the store.
geminiVars == << gemini, document, retry, gemini_ret >>

queryVars == << query_ret >>

toolVars == << builder, splitter, workflow, manager, embedder, petition >>

extraVars == << filterVars, geminiVars, queryVars, toolVars >>

vars == << retrieverVars, storeVars, extraVars >>

index_of(s) == IF s = "structure" THEN structure_index ELSE content_index
documents_of(s) == IF s = "structure" THEN structure_documents ELSE content_documents

NoFile == [exists |-> FALSE, ntotal |-> 0, ndocs |-> 0]
\* What an index directory may hold for one space: nothing, or an index file
\* of ntotal vectors next to a documents file of ndocs records.
DiskStates ==
    {NoFile} \cup {[exists |-> TRUE, ntotal |-> n, ndocs |-> m] : n \in 0..MaxN, m \in 0..MaxN}

\* self.structure_index = None
NoIndex == [built |-> FALSE, ntotal |-> 0]
Idle == [op |-> "idle", query |-> << >>, k |-> 0, pre |-> [structure |-> 0, content |-> 0]]
NoEmbedding == [dir |-> 0, norm |-> 0]
NoOutcome == [raised |-> FALSE, results |-> << >>]
NoTask == [state |-> "none", emb |-> NoEmbedding, out |-> NoOutcome]
NoValue == [structure |-> << >>, content |-> << >>, search_time |-> 0]
NoRet == [op |-> "none", query |-> << >>, k |-> 0, outcome |-> "none", value |-> NoValue,
          hit |-> FALSE]

\* The index directories of the retrieve runs: per space no files, an empty
\* index with an empty documents file, or a full index with its documents.
DiskExtremes ==
    {NoFile} \cup {[exists |-> TRUE, ntotal |-> n, ndocs |-> n] : n \in {0, MaxN}}

\* The object before its constructor runs, whatever the directory holds.
Unconstructed ==
    /\ loaded = FALSE
    /\ structure_index = NoIndex
    /\ structure_documents = << >>
    /\ content_index = NoIndex
    /\ content_documents = << >>
    /\ metadata_filters = [courts |-> {}, case_types |-> {}, keywords |-> {}]
    /\ query_cache = << >>
    /\ embedding_cache = << >>
    /\ call = Idle
    /\ task = [s \in Spaces |-> NoTask]
    /\ ret = NoRet
    /\ history = << >>
    /\ steps = {}
    /\ calls = 0

\* No single-store retriever under study.
NoStore == [class |-> "none", embeddings |-> 0, documents |-> 0, metadatas |-> 0]
\* No backend is asked: the embedding comes from a local encoder.
NoReply == [ok |-> TRUE, norm |-> 1, dim |-> "equal"]
NoStoreRet == [outcome |-> "none", query |-> << >>, top_k |-> 0, results |-> << >>,
               reply |-> NoReply, source |-> "none"]
StoreUnused == store = NoStore /\ store_ret = NoStoreRet

NoFilterRet == [op |-> "none", outcome |-> "none", query |-> << >>, case_type |-> None,
                courts |-> {}, candidates |-> [s \in Spaces |-> {}]]

FilterUnused ==
    /\ builder_in = << >>
    /\ documents_file = [s \in Spaces |-> << >>]
    /\ filter_ret = NoFilterRet

NoDocument == [phase |-> "idle", document_type |-> "none", full_document |-> << >>,
               current_round |-> 0, section_index |-> 0]
NoRetry == [state |-> "idle", retries |-> 0, attempts |-> 0, result |-> None]
NoGeminiRet == [outcome |-> "none", text |-> << >>]
GeminiUnused ==
    /\ gemini = [is_initialized |-> FALSE]
    /\ document = NoDocument
    /\ retry = NoRetry
    /\ gemini_ret = NoGeminiRet

NoQueryRet == [call_no |-> 0, outcome |-> "none", question |-> << >>, response |-> << >>,
               generation |-> "none", structure_context |-> << >>,
               content_context |-> << >>, structure_sources |-> << >>,
               content_sources |-> << >>]
QueryUnused == query_ret = NoQueryRet

NotBuilt == [built |-> FALSE, vectors |-> << >>]
NoDocumentsFile == [exists |-> FALSE, records |-> << >>]
NoBuilder == [constructed |-> FALSE,
              index |-> [s \in Spaces |-> NotBuilt],
              documents |-> [s \in Spaces |-> << >>],
              dir |-> [s \in Spaces |-> [index |-> NotBuilt, documents |-> NoDocumentsFile]],
              raised |-> FALSE]
NoSplitter == [state |-> "none"]
NoPrompt == << "<no call>" >>
NoOutput == [text |-> << >>, chars |-> 0]
NoWorkflow == [node |-> "idle", state |-> [session_id |-> << >>], supersteps |-> 0,
               llm_prompt |-> NoPrompt]
NoManager == [state_history |-> << >>, lists |-> << >>, clock |-> 0]
NotCached == [source |-> "none", of |-> << >>]
NoEmbedder == [use_local_embeddings |-> FALSE, backend |-> "down",
               lru |-> [q \in Queries |-> NotCached],
               files |-> [q \in Queries |-> NotCached],
               ret |-> [text |-> << >>, backend |-> "down", embedding |-> NotCached]]
NoCaseDetails == [kind |-> "none", case_type |-> "none"]
NoPetitionRet == [returned |-> FALSE, is_none |-> TRUE, petition_id |-> 0,
                  petition_text |-> << >>, case_details |-> NoCaseDetails]
NoPetition == [generated |-> << >>, stored |-> FALSE, case_details |-> NoCaseDetails,
               petitions |-> 0, calls |-> 0, ret |-> NoPetitionRet]
ToolsUnused ==
    /\ builder = NoBuilder
    /\ splitter = NoSplitter
    /\ workflow = NoWorkflow
    /\ manager = NoManager
    /\ embedder = NoEmbedder
    /\ petition = NoPetition

ExtraUnused == FilterUnused /\ GeminiUnused /\ QueryUnused /\ ToolsUnused

Init == disk \in [Spaces -> DiskExtremes] /\ Unconstructed /\ StoreUnused /\ ExtraUnused

InitSearch == disk \in [Spaces -> DiskStates] /\ Unconstructed /\ StoreUnused /\ ExtraUnused

\* ------------------------------------------------------------ construction
\* load_indexes(), one space: read the index when its file exists and load
\* the documents file next to it; otherwise no index and no documents.
load_indexes(d, s) ==
    IF d[s].exists
    THEN [index |-> [built |-> TRUE, ntotal |-> d[s].ntotal],
          documents |-> DocumentsFile(s, d[s].ndocs)]
    ELSE [index |-> NoIndex, documents |-> << >>]

\* __init__: load_indexes() then build_filters().
Construct ==
    /\ ~loaded
    /\ loaded' = TRUE
    /\ structure_index' = load_indexes(disk, "structure").index
    /\ structure_documents' = load_indexes(disk, "structure").documents
    /\ content_index' = load_indexes(disk, "content").index
    /\ content_documents' = load_indexes(disk, "content").documents
    /\ metadata_filters' = BuildFilters(load_indexes(disk, "structure").documents,
                                        load_indexes(disk, "content").documents)
    /\ UNCHANGED << storeVars, extraVars >>
    /\ UNCHANGED << disk, query_cache, embedding_cache, call, task, ret, history, steps, calls >>

\* --------------------------------------------------------- embedding cache
EmbeddingKey(text, model_type) == [text |-> text, model_type |-> model_type]

CachedAt(cache, key) == {i \in 1..Len(cache) : cache[i].key = key}

Without(cache, i) == SubSeq(cache, 1, i - 1) \o SubSeq(cache, i + 1, Len(cache))

\* @lru_cache(maxsize=...) get_cached_embedding(text, model_type): a hit
\* returns the stored array and makes the entry the most recent; a miss
\* encodes with the encoder of model_type, drops the oldest entry when the
\* cache is full and stores the new array.  Yields the array and the cache.
get_cached_embedding(cache, text, model_type) ==
    LET key == EmbeddingKey(text, model_type)
        at  == CachedAt(cache, key)
    IN  IF at # {}
        THEN LET i == CHOOSE j \in at : TRUE
             IN  [value |-> cache[i].value,
                  cache |-> Append(Without(cache, i), cache[i])]
        ELSE LET v == Encode(text, model_type)
                 kept == IF Len(cache) >= MaxCacheSize THEN Tail(cache) ELSE cache
             IN  [value |-> v, cache |-> Append(kept, [key |-> key, value |-> v])]

\* The effect on the cache of writing v into the array stored under key
\* (the caller holds the stored array itself, not a copy).
WriteThrough(cache, key, v) ==
    [i \in 1..Len(cache) |-> IF cache[i].key = key THEN [cache[i] EXCEPT !.value = v]
                                                    ELSE cache[i]]

\* ------------------------------------------------------------ the searches
TaskOps == {"optimized_dual_search", "dual_search", "search_structure", "search_content"}

Done(results) == [state |-> "done", emb |-> NoEmbedding,
                  out |-> [raised |-> FALSE, results |-> results]]

\* search_structure / search_content up to the embedding: return [] when the
\* index is None, else fetch the query embedding through the cache.
TaskStart(s) ==
    /\ call.op \in TaskOps
    /\ task[s].state = "queued"
    /\ IF ~index_of(s).built
       THEN /\ task' = [task EXCEPT ![s] = Done(<< >>)]
            /\ UNCHANGED << embedding_cache, steps >>
       ELSE LET got == get_cached_embedding(embedding_cache, call.query, s)
            IN  /\ task' = [task EXCEPT ![s] = [state |-> "running", emb |-> got.value,
                                                out |-> NoOutcome]]
                /\ embedding_cache' = got.cache
                /\ steps' = steps \cup {"embedding"}
    /\ UNCHANGED << storeVars, extraVars >>
    /\ UNCHANGED << disk, loaded, structure_index, structure_documents, content_index,
                    content_documents, metadata_filters, query_cache, call, ret, history, calls >>

\* The rest of search_structure / search_content: normalize the embedding
\* in place, search the index, build the result list.
Search(s, index, docs, e, k) == BuildResults(docs, faiss_search(s, index.ntotal, e, k), 1)

TaskFinish(s) ==
    /\ call.op \in TaskOps
    /\ task[s].state = "running"
    /\ LET e == normalize_L2(task[s].emb)
       IN  /\ embedding_cache' = WriteThrough(embedding_cache, EmbeddingKey(call.query, s), e)
           /\ task' = [task EXCEPT ![s] = [state |-> "done", emb |-> e,
                                           out |-> Search(s, index_of(s), documents_of(s),
                                                          e, call.k)]]
    /\ steps' = steps \cup {"search"}
    /\ UNCHANGED << storeVars, extraVars >>
    /\ UNCHANGED << disk, loaded, structure_index, structure_documents, content_index,
                    content_documents, metadata_filters, query_cache, call, ret, history, calls >>

\* ------------------------------------------------------------- the caller
CanCall == loaded /\ call.op = "idle" /\ calls < MaxCalls

Queued == [state |-> "queued", emb |-> NoEmbedding, out |-> NoOutcome]

\* dict.__setitem__
Put(cache, key, value) ==
    [x \in DOMAIN cache \cup {key} |-> IF x = key THEN value ELSE cache[x]]

\* A retriever that never finds a query in its cache.
CacheHit_Never(cache, query, k) == FALSE

\* `if cache_key in self.query_cache`
CacheHit(cache, query, k) == CacheKey(query, k) \in DOMAIN cache

\* optimized_dual_search(query, k), cache hit: return the cached dict.
optimized_dual_search_hit(query, k) ==
    /\ CanCall
    /\ CacheHit(query_cache, query, k)
    /\ ret' = [op |-> "optimized_dual_search", query |-> query, k |-> k,
               outcome |-> "returned", value |-> query_cache[CacheKey(query, k)],
               hit |-> TRUE]
    /\ history' = Put(history, CacheKey(query, k), query_cache[CacheKey(query, k)])
    /\ steps' = {}
    /\ calls' = calls + 1
    /\ UNCHANGED << storeVars, extraVars >>
    /\ UNCHANGED << disk, loaded, structure_index, structure_documents, content_index,
                    content_documents, metadata_filters, query_cache, embedding_cache,
                    call, task >>

\* optimized_dual_search(query, k), cache miss: pre-filter both document
\* arrays, then submit both searches to the two-worker pool.
optimized_dual_search_miss(query, k) ==
    /\ CanCall
    /\ ~CacheHit(query_cache, query, k)
    /\ call' = [op |-> "optimized_dual_search", query |-> query, k |-> k,
                pre |-> [structure |-> Cardinality(PreFilter(structure_documents, query,
                                                             metadata_filters)),
                         content   |-> Cardinality(PreFilter(content_documents, query,
                                                             metadata_filters))]]
    /\ task' = [s \in Spaces |-> Queued]
    /\ ret' = NoRet
    /\ steps' = {"pre_filter"}
    /\ calls' = calls + 1
    /\ UNCHANGED << storeVars, extraVars >>
    /\ UNCHANGED << disk, loaded, structure_index, structure_documents, content_index,
                    content_documents, metadata_filters, query_cache, embedding_cache,
                    history >>

\* structure_future.result(), then content_future.result(): an exception of
\* a search is re-raised to the caller, structure's first.
Raised == task["structure"].out.raised \/ task["content"].out.raised

\* The end of optimized_dual_search: both futures are done (the `with` block
\* has shut the pool down); build the result dict, cache it, return it.
optimized_dual_search_join ==
    /\ call.op = "optimized_dual_search"
    /\ \A s \in Spaces : task[s].state = "done"
    /\ IF Raised
       THEN /\ ret' = [NoRet EXCEPT !.op = call.op, !.query = call.query, !.k = call.k,
                                    !.outcome = "raised"]
            /\ UNCHANGED << query_cache, history >>
       ELSE \E total_time \in Durations :
              LET results == [structure |-> task["structure"].out.results,
                              content |-> task["content"].out.results,
                              search_time |-> total_time,
                              pre_filtered_structure |-> call.pre.structure,
                              pre_filtered_content |-> call.pre.content]
              IN  /\ query_cache' = Put(query_cache, CacheKey(call.query, call.k), results)
                  /\ history' = Put(history, CacheKey(call.query, call.k), results)
                  /\ ret' = [op |-> call.op, query |-> call.query, k |-> call.k,
                             outcome |-> "returned", value |-> results, hit |-> FALSE]
    /\ call' = Idle
    /\ task' = [s \in Spaces |-> NoTask]
    /\ UNCHANGED << storeVars, extraVars >>
    /\ UNCHANGED << disk, loaded, structure_index, structure_documents, content_index,
                    content_documents, metadata_filters, embedding_cache, steps, calls >>

\* dual_search(query, k): submit both searches to a two-worker pool.
dual_search(query, k) ==
    /\ CanCall
    /\ call' = [Idle EXCEPT !.op = "dual_search", !.query = query, !.k = k]
    /\ task' = [s \in Spaces |-> Queued]
    /\ ret' = NoRet
    /\ steps' = {}
    /\ calls' = calls + 1
    /\ UNCHANGED << storeVars, extraVars >>
    /\ UNCHANGED << disk, loaded, structure_index, structure_documents, content_index,
                    content_documents, metadata_filters, query_cache, embedding_cache,
                    history >>

\* The end of dual_search: both futures are done; return the result dict.
dual_search_join ==
    /\ call.op = "dual_search"
    /\ \A s \in Spaces : task[s].state = "done"
    /\ IF Raised
       THEN ret' = [NoRet EXCEPT !.op = call.op, !.query = call.query, !.k = call.k,
                                 !.outcome = "raised"]
       ELSE \E total_time \in Durations :
              ret' = [op |-> call.op, query |-> call.query, k |-> call.k,
                      outcome |-> "returned",
                      value |-> [structure |-> task["structure"].out.results,
                                 content |-> task["content"].out.results,
                                 search_time |-> total_time],
                      hit |-> FALSE]
    /\ call' = Idle
    /\ task' = [s \in Spaces |-> NoTask]
    /\ UNCHANGED << storeVars, extraVars >>
    /\ UNCHANGED << disk, loaded, structure_index, structure_documents, content_index,
                    content_documents, metadata_filters, query_cache, embedding_cache,
                    history, steps, calls >>

SearchOp(s) == IF s = "structure" THEN "search_structure" ELSE "search_content"

\* search_structure(query, k) / search_content(query, k) called directly, on
\* the caller's thread.
search_call(s, query, k) ==
    /\ CanCall
    /\ call' = [Idle EXCEPT !.op = SearchOp(s), !.query = query, !.k = k]
    /\ task' = [t \in Spaces |-> IF t = s THEN Queued ELSE NoTask]
    /\ ret' = NoRet
    /\ steps' = {}
    /\ calls' = calls + 1
    /\ UNCHANGED << storeVars, extraVars >>
    /\ UNCHANGED << disk, loaded, structure_index, structure_documents, content_index,
                    content_documents, metadata_filters, query_cache, embedding_cache,
                    history >>

\* The direct search returns its result list, or its exception propagates.
search_return(s) ==
    /\ call.op = SearchOp(s)
    /\ task[s].state = "done"
    /\ ret' = [op |-> call.op, query |-> call.query, k |-> call.k,
               outcome |-> IF task[s].out.raised THEN "raised" ELSE "returned",
               value |-> [NoValue EXCEPT ![s] = task[s].out.results],
               hit |-> FALSE]
    /\ call' = Idle
    /\ task' = [t \in Spaces |-> NoTask]
    /\ UNCHANGED << storeVars, extraVars >>
    /\ UNCHANGED << disk, loaded, structure_index, structure_documents, content_index,
                    content_documents, metadata_filters, query_cache, embedding_cache,
                    history, steps, calls >>

\* ---------------------------------------------------------- specifications
\* The retriever under retrieve calls and direct searches.
Next ==
    \/ Construct
    \/ \E q \in Queries, k \in Ks : optimized_dual_search_hit(q, k)
    \/ \E q \in Queries, k \in Ks : optimized_dual_search_miss(q, k)
    \/ optimized_dual_search_join
    \/ \E q \in Queries, k \in Ks : dual_search(q, k)
    \/ dual_search_join
    \/ \E s \in Spaces, q \in Queries, k \in Ks : search_call(s, q, k)
    \/ \E s \in Spaces : search_return(s)
    \/ \E s \in Spaces : TaskStart(s)
    \/ \E s \in Spaces : TaskFinish(s)

Spec == Init /\ [][Next]_vars

\* The retriever under direct searches of one index.
NextSearch ==
    \/ Construct
    \/ \E s \in Spaces, q \in Queries, k \in Ks : search_call(s, q, k)
    \/ \E s \in Spaces : search_return(s)
    \/ \E s \in Spaces : TaskStart(s)
    \/ \E s \in Spaces : TaskFinish(s)

SpecSearch == InitSearch /\ [][NextSearch]_vars

\* ------------------------------------------------- the index builder
\* DualRAGProcessor keeps the same four fields (structure_index,
\* structure_documents, content_index, content_documents); SpecProcessor
\* runs one processor object on them.

\* DualRAGProcessor.__init__: no index, no documents.
InitProcessor == disk \in [Spaces -> DiskStates] /\ Unconstructed /\ StoreUnused /\ ExtraUnused

\* `self` after __init__ is usable at once.
ProcessorConstruct ==
    /\ ~loaded
    /\ loaded' = TRUE
    /\ UNCHANGED << storeVars, extraVars >>
    /\ UNCHANGED << disk, structure_index, structure_documents, content_index,
                    content_documents, metadata_filters, query_cache, embedding_cache,
                    call, task, ret, history, steps, calls >>

ProcessorIdle == loaded /\ call.op = "idle"

\* DualRAGProcessor.load_indexes(input_dir), one space: a space whose index
\* file is missing keeps what the object held.
processor_load_indexes(d, s, index, documents) ==
    IF d[s].exists
    THEN [index |-> [built |-> TRUE, ntotal |-> d[s].ntotal],
          documents |-> DocumentsFile(s, d[s].ndocs)]
    ELSE [index |-> index, documents |-> documents]

ProcessorLoad ==
    /\ ProcessorIdle
    /\ calls < MaxCalls
    /\ LET st == processor_load_indexes(disk, "structure", structure_index,
                                        structure_documents)
           ct == processor_load_indexes(disk, "content", content_index, content_documents)
       IN  /\ structure_index' = st.index
           /\ structure_documents' = st.documents
           /\ content_index' = ct.index
           /\ content_documents' = ct.documents
    /\ calls' = calls + 1
    /\ UNCHANGED << storeVars, extraVars >>
    /\ UNCHANGED << disk, loaded, metadata_filters, query_cache, embedding_cache,
                    call, task, ret, history, steps >>

\* DualRAGProcessor.dual_search(query, k): search_structure, and when it has
\* returned, search_content, both on the caller's thread.
processor_dual_search(query, k) ==
    /\ ProcessorIdle
    /\ calls < MaxCalls
    /\ call' = [Idle EXCEPT !.op = "processor_dual_search", !.query = query, !.k = k]
    /\ task' = [s \in Spaces |-> Queued]
    /\ ret' = NoRet
    /\ steps' = {}
    /\ calls' = calls + 1
    /\ UNCHANGED << storeVars, extraVars >>
    /\ UNCHANGED << disk, loaded, structure_index, structure_documents, content_index,
                    content_documents, metadata_filters, query_cache, embedding_cache,
                    history >>

\* The statement order of dual_search: search_content is called once
\* search_structure has returned normally.
ProcessorMayStart(s) ==
    s = "content" => (task["structure"].state = "done" /\ ~task["structure"].out.raised)

\* DualRAGProcessor.search_structure / search_content up to the encoding:
\* [] when the index is None, else encode the query (no cache).
ProcessorTaskStart(s) ==
    /\ call.op = "processor_dual_search"
    /\ task[s].state = "queued"
    /\ ProcessorMayStart(s)
    /\ IF ~index_of(s).built
       THEN task' = [task EXCEPT ![s] = Done(<< >>)]
       ELSE task' = [task EXCEPT ![s] = [state |-> "running",
                                         emb |-> Encode(call.query, s),
                                         out |-> NoOutcome]]
    /\ UNCHANGED << storeVars, extraVars >>
    /\ UNCHANGED << disk, loaded, structure_index, structure_documents, content_index,
                    content_documents, metadata_filters, query_cache, embedding_cache,
                    call, ret, history, steps, calls >>

\* The rest of the processor's search: search the index with the embedding as
\* encoded, build the result list.
ProcessorTaskFinish(s) ==
    /\ call.op = "processor_dual_search"
    /\ task[s].state = "running"
    /\ task' = [task EXCEPT ![s] = [state |-> "done", emb |-> task[s].emb,
                                    out |-> Search(s, index_of(s), documents_of(s),
                                                   task[s].emb, call.k)]]
    /\ UNCHANGED << storeVars, extraVars >>
    /\ UNCHANGED << disk, loaded, structure_index, structure_documents, content_index,
                    content_documents, metadata_filters, query_cache, embedding_cache,
                    call, ret, history, steps, calls >>

\* dual_search returns {'structure': ..., 'content': ...} after both
\* searches, or the exception of the first failing search propagates.
processor_dual_search_return ==
    /\ call.op = "processor_dual_search"
    /\ \/ \A s \in Spaces : task[s].state = "done"
       \/ task["structure"].state = "done" /\ task["structure"].out.raised
    /\ ret' = [op |-> call.op, query |-> call.query, k |-> call.k,
               outcome |-> IF Raised THEN "raised" ELSE "returned",
               value |-> IF Raised THEN NoValue
                         ELSE [structure |-> task["structure"].out.results,
                               content |-> task["content"].out.results],
               hit |-> FALSE]
    /\ call' = Idle
    /\ task' = [s \in Spaces |-> NoTask]
    /\ UNCHANGED << storeVars, extraVars >>
    /\ UNCHANGED << disk, loaded, structure_index, structure_documents, content_index,
                    content_documents, metadata_filters, query_cache, embedding_cache,
                    history, steps, calls >>

NextProcessor ==
    \/ ProcessorConstruct
    \/ ProcessorLoad
    \/ \E q \in Queries, k \in Ks : processor_dual_search(q, k)
    \/ \E s \in Spaces : ProcessorTaskStart(s)
    \/ \E s \in Spaces : ProcessorTaskFinish(s)
    \/ processor_dual_search_return

SpecProcessor == InitProcessor /\ [][NextProcessor]_vars

\* ------------------------------------------------ single-store retrievers
\* LawgorithmRAGInterface (rag/) and VectorStore (rag_ollama_integration/)
\* load one JSON vector store: parallel arrays embeddings, documents and
\* metadatas.  The store is its three array lengths; row i of embeddings is
\* StoreVector(i), document i is StoreDocument(i).
StoreClasses == {"LawgorithmRAGInterface", "VectorStore"}

StoreVector(i) == [dir |-> i % 3, norm |-> 1]
StoreDocument(i) == i + 1

\* The store after construction: the arrays of the JSON file as loaded.
InitStore ==
    /\ disk = [s \in Spaces |-> NoFile]
    /\ Unconstructed
    /\ store \in {[class |-> c, embeddings |-> n, documents |-> m, metadatas |-> m] :
                    c \in StoreClasses, n \in 0..MaxN, m \in 0..MaxN}
    /\ store_ret = NoStoreRet
    /\ ExtraUnused

\* What the embedding backend of LawgorithmRAGInterface.get_embedding may
\* answer: an embedding of the store's dimension, a shorter or a longer one,
\* each possibly the zero vector; or an error.
BackendDims == {"equal", "shorter", "longer"}
BackendNorms == {0, 1}

\* create_fallback_embedding(text): bytes of the MD5 digest of the text,
\* repeated up to the store's dimension.
create_fallback_embedding(text) == [dir |-> (Len(text) + 1) % 3, norm |-> 1, dim |-> "equal"]

\* get_embedding(text): the backend's embedding, or the fallback embedding
\* when the backend answers with an error or raises.
get_embedding(text, reply) ==
    IF reply.ok THEN [dir |-> Encode(text, "content").dir, norm |-> reply.norm,
                      dim |-> reply.dim]
    ELSE create_fallback_embedding(text)

\* "Handle dimension mismatch": pad with zeros or truncate to the store's
\* dimension.
Resize(e) == [e EXCEPT !.dim = "equal"]

\* argsort(similarities)[::-1][:top_k]: the labels of S by decreasing
\* similarity, among equals the higher label first, at most top_k of them.
RECURSIVE TopIndices(_, _, _)
TopIndices(sim, S, top_k) ==
    IF top_k = 0 \/ S = {} THEN << >>
    ELSE LET b == CHOOSE i \in S :
                     \A j \in S : sim[i] > sim[j] \/ (sim[i] = sim[j] /\ i >= j)
         IN  <<b>> \o TopIndices(sim, S \ {b}, top_k - 1)

RECURSIVE StoreResults(_, _, _, _)
\* The result loop: documents[idx] and metadatas[idx] of each top index;
\* an index beyond either array raises IndexError.
StoreResults(st, sim, top, i) ==
    IF i > Len(top) THEN [raised |-> FALSE, results |-> << >>]
    ELSE LET rest == StoreResults(st, sim, top, i + 1)
         IN  IF top[i] >= st.documents \/ top[i] >= st.metadatas
             THEN [raised |-> TRUE, results |-> << >>]
             ELSE IF rest.raised THEN rest
             ELSE [raised |-> FALSE,
                   results |-> << [document |-> StoreDocument(top[i]),
                                   similarity |-> sim[top[i]]] >> \o rest.results]

\* LawgorithmRAGInterface.search_similar(query, top_k), given the backend's
\* reply and the direction of the random replacement of a zero vector:
\* self.embeddings.shape[1] raises IndexError on a store without rows;
\* otherwise resize, replace a zero query vector by a random one, rank by
\* cosine similarity.
search_similar(st, query, top_k, reply, random_dir) ==
    IF st.embeddings = 0 THEN [raised |-> TRUE, results |-> << >>]
    ELSE LET e0  == Resize(get_embedding(query, reply))
             e   == IF e0.norm = 0 THEN [e0 EXCEPT !.dir = random_dir, !.norm = 1] ELSE e0
             sim == [i \in 0..(st.embeddings - 1) |-> Cos(StoreVector(i).dir, e.dir)]
         IN  StoreResults(st, sim, TopIndices(sim, DOMAIN sim, top_k), 1)

\* VectorStore.search_similar(query, top_k): [] for a store without rows;
\* otherwise encode locally and rank by inner product.
vector_store_search_similar(st, query, top_k) ==
    IF st.embeddings = 0 THEN [raised |-> FALSE, results |-> << >>]
    ELSE LET e   == Encode(query, "structure")
             sim == [i \in 0..(st.embeddings - 1) |-> InnerProduct(StoreVector(i), e)]
         IN  StoreResults(st, sim, TopIndices(sim, DOMAIN sim, top_k), 1)

\* Where get_embedding took the query vector from.
EmbeddingSource(reply) == IF reply.ok THEN "backend" ELSE "fallback"

StoreReturn(query, top_k, out, reply, source) ==
    store_ret' = [outcome |-> IF out.raised THEN "raised" ELSE "returned",
                  query |-> query, top_k |-> top_k, results |-> out.results,
                  reply |-> reply, source |-> source]

\* The answers of the embedding backend: an embedding, or an error (error
\* status, exception or timeout).
BackendReplies ==
    {[ok |-> TRUE, norm |-> n, dim |-> d] : n \in BackendNorms, d \in BackendDims}
      \cup {[ok |-> FALSE, norm |-> 0, dim |-> "equal"]}

LawgorithmSearch(query, top_k) ==
    /\ store.class = "LawgorithmRAGInterface"
    /\ \E reply \in BackendReplies, random_dir \in 0..2 :
          StoreReturn(query, top_k, search_similar(store, query, top_k, reply, random_dir),
                      reply, EmbeddingSource(reply))
    /\ UNCHANGED << store, retrieverVars, extraVars >>

VectorStoreSearch(query, top_k) ==
    /\ store.class = "VectorStore"
    /\ StoreReturn(query, top_k, vector_store_search_similar(store, query, top_k),
                   NoReply, "local")
    /\ UNCHANGED << store, retrieverVars, extraVars >>

\* VectorStore.add_documents(documents): encode, append the rows, extend
\* documents and metadatas, save.
add_documents(count) ==
    /\ store.class = "VectorStore"
    /\ count > 0
    /\ store.embeddings + count <= MaxN
    /\ store.documents + count <= MaxN
    /\ store' = [store EXCEPT !.embeddings = @ + count, !.documents = @ + count,
                              !.metadatas = @ + count]
    /\ UNCHANGED << store_ret, retrieverVars, extraVars >>

NextStore ==
    \/ \E q \in Queries, k \in Ks : LawgorithmSearch(q, k)
    \/ \E q \in Queries, k \in Ks : VectorStoreSearch(q, k)
    \/ \E count \in 1..MaxN : add_documents(count)

SpecStore == InitStore /\ [][NextStore]_vars

\* ------------------------------------------- index builder and filter index
\* The documents files the retriever loads hold either flat records (title,
\* court and text at top level) or the {text, metadata} records the index
\* builder (DualRAGProcessor) saves.  Both are records of one shape here; a
\* key a record does not have is AbsentField.
NoMetadata == [docid |-> 0, title |-> AbsentField, court |-> AbsentField,
               date |-> AbsentField, section |-> "none"]

FlatRecord(title, court, text) ==
    [title |-> title, court |-> court, text |-> text, metadata |-> NoMetadata]

FlatRecords ==
    { FlatRecord(<<"Bail", "order">>, <<"Delhi">>, <<"bail", "granted">>),
      FlatRecord(AbsentField, AbsentField, <<"header">>),
      FlatRecord(<<"Property", "contract">>, AbsentField, <<"facts">>),
      FlatRecord(NullField, <<"Delhi">>, <<"judgment">>),
      FlatRecord(<<"Lease", "deed">>, NullField, <<"facts">>) }

\* The processed records of the builder's data file ('structure_data').
RawRecords ==
    { [docid |-> 1, title |-> <<"Bail", "order">>, court |-> <<"Delhi">>,
       date |-> <<"2020">>, citations |-> <<"AIR">>, cited_by |-> << >>],
      [docid |-> 2, title |-> <<"Lease", "deed">>, court |-> AbsentField,
       date |-> AbsentField, citations |-> << >>, cited_by |-> <<"SCC">>] }

\* Queries put to the pre-filter: with and without a case type or a court,
\* and the titles of corpus documents.
FilterQueries ==
    { <<"bail">>, <<"Bail", "order">>, <<"Delhi", "contract">>, <<"facts">>,
      <<"Property", "contract">> }

\* All sequences over S of length at most n.
RECURSIVE SeqsUpTo(_, _)
SeqsUpTo(S, n) ==
    IF n = 0 THEN { << >> }
    ELSE LET shorter == SeqsUpTo(S, n - 1)
         IN  shorter \cup {Append(q, x) : q \in shorter, x \in S}

\* dict.get(key, default): the default only when the key is absent.
Get(v, default) == IF v = AbsentField THEN default ELSE v

\* str(v) inside an f-string.
PyStr(v) == IF v = NullField THEN <<"None">> ELSE v

\* split_structure_documents, one document: an optional citations chunk, an
\* optional cited-by chunk, and the header chunk, each {text, metadata}.
StructureChunks(doc) ==
    LET title == Get(doc.title, << >>)
        court == Get(doc.court, << >>)
        date  == Get(doc.date, << >>)
        chunk(text, section) ==
            [title |-> AbsentField, court |-> AbsentField, text |-> text,
             metadata |-> [docid |-> doc.docid, title |-> title, court |-> court,
                           date |-> date, section |-> section]]
    IN  (IF doc.citations # << >>
         THEN << chunk(<<"Citations:">> \o doc.citations, "citations") >> ELSE << >>)
     \o (IF doc.cited_by # << >>
         THEN << chunk(<<"Cited", "by:">> \o doc.cited_by, "cited_by") >> ELSE << >>)
     \o << chunk(<<"Title:">> \o PyStr(title) \o <<"Court:">> \o PyStr(court)
                   \o <<"Date:">> \o PyStr(date), "header") >>

RECURSIVE split_structure_documents(_)
split_structure_documents(structure_data) ==
    IF structure_data = << >> THEN << >>
    ELSE StructureChunks(Head(structure_data))
           \o split_structure_documents(Tail(structure_data))

\* The builder's main(), on a data file without content data: split the
\* structure data, build the structure index (nothing when there are no
\* chunks), save the index and structure_documents.json.
BuilderMain ==
    /\ ~loaded
    /\ LET structure_chunks == split_structure_documents(builder_in)
       IN  documents_file' =
               IF structure_chunks = << >> THEN documents_file
               ELSE [documents_file EXCEPT !["structure"] = structure_chunks]
    /\ UNCHANGED << builder_in, filter_ret, retrieverVars, storeVars, geminiVars, queryVars, toolVars >>

\* build_filters() raises AttributeError at title.lower() when a document
\* has the key 'title' with value None.
BuildFiltersRaises(sdocs, cdocs) ==
    \/ \E i \in 1..Len(sdocs) : sdocs[i].title = NullField
    \/ \E i \in 1..Len(cdocs) : cdocs[i].title = NullField

\* OptimizedDualRAGInterface.__init__ on the documents files: load_indexes()
\* then build_filters(); an exception of build_filters leaves no retriever.
FilterConstruct ==
    /\ ~loaded
    /\ LET sdocs == documents_file["structure"]
           cdocs == documents_file["content"]
       IN  IF BuildFiltersRaises(sdocs, cdocs)
           THEN /\ filter_ret' = [NoFilterRet EXCEPT !.op = "build_filters",
                                                     !.outcome = "raised"]
                /\ UNCHANGED << loaded, structure_index, structure_documents,
                                content_index, content_documents, metadata_filters >>
           ELSE /\ filter_ret' = [NoFilterRet EXCEPT !.op = "build_filters",
                                                     !.outcome = "returned"]
                /\ loaded' = TRUE
                /\ structure_index' = [built |-> TRUE, ntotal |-> Len(sdocs)]
                /\ structure_documents' = sdocs
                /\ content_index' = [built |-> TRUE, ntotal |-> Len(cdocs)]
                /\ content_documents' = cdocs
                /\ metadata_filters' = BuildFilters(sdocs, cdocs)
    /\ UNCHANGED << disk, query_cache, embedding_cache, call, task, ret, history, steps,
                    calls >>
    /\ UNCHANGED << builder_in, documents_file, storeVars, geminiVars, queryVars, toolVars >>

\* pre_filter_documents(query) raises when a known court is None (AttributeError
\* at court.lower()) or a document's title or text is None (TypeError at
\* title + ' ' + text, AttributeError at title.lower()).
PreFilterRaises(sdocs, cdocs, filters) ==
    \/ NullField \in filters.courts
    \/ \E i \in 1..Len(sdocs) : sdocs[i].title = NullField \/ sdocs[i].text = NullField
    \/ \E i \in 1..Len(cdocs) : cdocs[i].title = NullField \/ cdocs[i].text = NullField

\* pre_filter_documents(query) on the constructed retriever.
PreFilterCall(query) ==
    /\ loaded
    /\ filter_ret' =
         IF PreFilterRaises(structure_documents, content_documents, metadata_filters)
         THEN [NoFilterRet EXCEPT !.op = "pre_filter_documents", !.outcome = "raised",
                                  !.query = query]
         ELSE [op |-> "pre_filter_documents", outcome |-> "returned", query |-> query,
               case_type |-> QueryCaseType(query),
               courts |-> {c \in metadata_filters.courts : Contains(Lower(query), Lower(c))},
               candidates |-> [s \in Spaces |->
                                 PreFilter(documents_of(s), query, metadata_filters)]]
    /\ UNCHANGED << builder_in, documents_file, retrieverVars, storeVars, geminiVars, queryVars, toolVars >>

InitFilter ==
    /\ disk = [s \in Spaces |-> NoFile]
    /\ Unconstructed
    /\ StoreUnused
    /\ GeminiUnused
    /\ QueryUnused
    /\ ToolsUnused
    /\ builder_in \in SeqsUpTo(RawRecords, MaxN)
    /\ documents_file \in [Spaces -> SeqsUpTo(FlatRecords, MaxN)]
    /\ Len(documents_file["content"]) <= 1
    /\ filter_ret = NoFilterRet

NextFilter ==
    \/ BuilderMain
    \/ FilterConstruct
    \/ \E q \in FilterQueries : PreFilterCall(q)

SpecFilter == InitFilter /\ [][NextFilter]_vars

\* ------------------------------------------------------ generator adapter
\* GeminiService.__init__: retry and round limits.
max_retries == 3
max_rounds == 15

\* What one call of the generation backend does: it answers with a text,
\* answers with an empty text, or raises.
GeneratedTexts == { <<"arguments", "prayer">>, <<"conclusion">> }
BackendBehaviours ==
    {[kind |-> "text", text |-> t] : t \in GeneratedTexts}
      \cup {[kind |-> "empty", text |-> << >>], [kind |-> "exception", text |-> << >>]}

\* generate_text(prompt, options): the response text; None when the response
\* is empty and, through `except Exception`, when the backend raises.
generate_text(b) == IF b.kind = "text" THEN b.text ELSE None

DocumentTypes == {"legal_document", "legal_response"}

\* _get_document_sections(document_type): four sections for a legal
\* response, otherwise the one section of a petition.
SectionCount(document_type) == IF document_type = "legal_response" THEN 4 ELSE 1

Tokens(text) == {text[i] : i \in 1..Len(text)}

\* _is_document_complete(document, document_type)
IsDocumentComplete(doc, document_type) ==
    /\ doc # << >>
    /\ (IF document_type = "legal_response"
        THEN {"conclusion", "analysis", "precedents"}
        ELSE {"arguments", "prayer"}) \subseteq Tokens(Lower(doc))
    /\ "verification" \notin Tokens(Lower(doc))
    /\ IF document_type = "legal_response"
       THEN Tokens(Lower(doc)) \cap {"conclusion", "summary", "therefore", "thus"} # {}
       ELSE doc[Len(doc)] \in {"affidavit", "undertaking", "prayer"}

ErrorDocument == <<"Error", "generating", "document">>
FailedDocument == <<"Failed", "to", "generate", "complete", "document">>

StartRetry == [state |-> "running", retries |-> 0, attempts |-> 0, result |-> None]

\* initialize(): the import and configuration succeed or raise.
GeminiInitialize(ok) ==
    /\ document.phase = "idle"
    /\ gemini' = [is_initialized |-> ok]
    /\ UNCHANGED << document, retry, gemini_ret, retrieverVars, storeVars, filterVars, queryVars, toolVars >>

\* generate_complete_document_iterative(prompt, document_type), entry: an
\* uninitialised service raises inside the try block and the error text is
\* returned; otherwise the round loop starts.
generate_complete_document_iterative(document_type) ==
    /\ document.phase = "idle"
    /\ IF ~gemini.is_initialized
       THEN /\ gemini_ret' = [outcome |-> "returned", text |-> ErrorDocument]
            /\ UNCHANGED document
       ELSE /\ document' = [phase |-> "rounds", document_type |-> document_type,
                            full_document |-> << >>, current_round |-> 0,
                            section_index |-> 0]
            /\ gemini_ret' = NoGeminiRet
    /\ UNCHANGED << gemini, retry, retrieverVars, storeVars, filterVars, queryVars, toolVars >>

InRounds ==
    /\ document.phase = "rounds"
    /\ document.current_round < max_rounds
    /\ document.section_index < SectionCount(document.document_type)

\* One round: call _generate_with_retry for the current section.
RoundBegin ==
    /\ InRounds
    /\ retry.state = "idle"
    /\ retry' = StartRetry
    /\ UNCHANGED << gemini, document, gemini_ret, retrieverVars, storeVars, filterVars, queryVars, toolVars >>

\* One pass of the while loop of _generate_with_retry: generate_text never
\* raises, so the except branch (the only place retries is incremented) is
\* not entered; a text is returned, anything else sleeps rate_limit_delay and
\* loops.
RetryAttempt(b) ==
    /\ retry.state = "running"
    /\ retry.retries < max_retries
    /\ retry.attempts < MaxAttempts
    /\ LET response == generate_text(b)
       IN  retry' = IF response # None
                    THEN [retry EXCEPT !.state = "returned", !.attempts = @ + 1,
                                       !.result = response]
                    ELSE [retry EXCEPT !.attempts = @ + 1]
    /\ UNCHANGED << gemini, document, gemini_ret, retrieverVars, storeVars, filterVars, queryVars, toolVars >>

\* The rest of a round: append the section and move on, or keep the section
\* for the next round; count the round.
RoundEnd ==
    /\ document.phase = "rounds"
    /\ retry.state = "returned"
    /\ document' = IF retry.result # None
                   THEN [document EXCEPT !.full_document = @ \o retry.result,
                                         !.section_index = @ + 1,
                                         !.current_round = @ + 1]
                   ELSE [document EXCEPT !.current_round = @ + 1]
    /\ retry' = NoRetry
    /\ UNCHANGED << gemini, gemini_ret, retrieverVars, storeVars, filterVars, queryVars, toolVars >>

\* After the rounds: return a complete document, or ask for a final
\* continuation.
RoundsDone ==
    /\ document.phase = "rounds"
    /\ retry.state = "idle"
    /\ ~InRounds
    /\ IF IsDocumentComplete(document.full_document, document.document_type)
       THEN /\ gemini_ret' = [outcome |-> "returned", text |-> document.full_document]
            /\ document' = NoDocument
            /\ UNCHANGED retry
       ELSE /\ document' = [document EXCEPT !.phase = "final"]
            /\ retry' = StartRetry
            /\ UNCHANGED gemini_ret
    /\ UNCHANGED << gemini, retrieverVars, storeVars, filterVars, queryVars, toolVars >>

\* The final continuation returned: return the document with it, or what
\* there is, or the failure text.
FinalDone ==
    /\ document.phase = "final"
    /\ retry.state = "returned"
    /\ gemini_ret' = [outcome |-> "returned",
                      text |-> IF retry.result # None
                               THEN document.full_document \o retry.result
                               ELSE IF document.full_document # << >>
                                    THEN document.full_document ELSE FailedDocument]
    /\ document' = NoDocument
    /\ retry' = NoRetry
    /\ UNCHANGED << gemini, retrieverVars, storeVars, filterVars, queryVars, toolVars >>

InitGemini ==
    /\ disk = [s \in Spaces |-> NoFile]
    /\ Unconstructed
    /\ StoreUnused
    /\ FilterUnused
    /\ GeminiUnused
    /\ QueryUnused
    /\ ToolsUnused

NextGemini ==
    \/ \E ok \in BOOLEAN : GeminiInitialize(ok)
    \/ \E t \in DocumentTypes : generate_complete_document_iterative(t)
    \/ RoundBegin
    \/ \E b \in BackendBehaviours : RetryAttempt(b)
    \/ RoundEnd
    \/ RoundsDone
    \/ FinalDone

SpecGemini == InitGemini /\ [][NextGemini]_vars

\* ---------------------------------------------------------- query interface
\* OptimizedDualRAGInterface.query(question, k) is optimized_dual_search
\* (the actions above) followed by context assembly and generation.

\* What POST /api/generate does: 200 with a text, 200 with the text of
\* another model, an error status, or an exception (timeout included).
GenerationTexts == { <<"petition", "draft">> }
GoogleText == <<"I", "am", "a", "large", "language", "model,", "trained", "by", "Google">>
GenerationBehaviours ==
    {[kind |-> "ok", text |-> t] : t \in GenerationTexts \cup {GoogleText}}
      \cup {[kind |-> "status", text |-> << >>], [kind |-> "exception", text |-> << >>]}

ApologyText == <<"I", "apologize,", "technical", "difficulties">>
SorryStatusText == <<"Sorry,", "I", "couldn't", "generate", "a", "response.">>
SorryErrorText == <<"Sorry,", "there", "was", "an", "error">>

\* generate_response(query, structure_context, content_context): always a
\* string.
generate_response(b) ==
    CASE b.kind = "ok" /\ Contains(b.text, GoogleText) -> ApologyText
      [] b.kind = "ok" -> b.text
      [] b.kind = "status" -> SorryStatusText
      [] OTHER -> SorryErrorText

\* structure_contexts[:2]: at most the first two.
Min2(n) == IF n < 2 THEN n ELSE 2

\* [doc.get('text', '') for doc in results][:2]
ContextTexts(results) ==
    [i \in 1..Min2(Len(results)) |-> GetText(results[i].doc, "text")]

RECURSIVE Join(_)
\* "\n\n".join(texts)
Join(texts) ==
    IF texts = << >> THEN << >>
    ELSE IF Len(texts) = 1 THEN texts[1]
    ELSE texts[1] \o <<"\n\n">> \o Join(Tail(texts))

\* The search of the last query() has returned and its generation is due.
QueryPending ==
    /\ call.op = "idle"
    /\ ret.op = "optimized_dual_search"
    /\ ret.outcome # "none"
    /\ query_ret.call_no # calls

\* The rest of query(): build both contexts from the first two results of
\* each space, generate, return the result dict.  An exception of the search
\* propagates.
query_generate(b) ==
    /\ QueryPending
    /\ query_ret' =
         IF ret.outcome = "raised"
         THEN [NoQueryRet EXCEPT !.call_no = calls, !.outcome = "raised",
                                 !.question = ret.query]
         ELSE [call_no |-> calls, outcome |-> "returned", question |-> ret.query,
               response |-> generate_response(b), generation |-> b.kind,
               structure_context |-> Join(ContextTexts(ret.value["structure"])),
               content_context |-> Join(ContextTexts(ret.value["content"])),
               structure_sources |-> ret.value["structure"],
               content_sources |-> ret.value["content"]]
    /\ UNCHANGED << retrieverVars, storeVars, filterVars, geminiVars, toolVars >>

NextQuery ==
    \/ Construct
    \/ \E q \in Queries, k \in Ks : ~QueryPending /\ optimized_dual_search_hit(q, k)
    \/ \E q \in Queries, k \in Ks : ~QueryPending /\ optimized_dual_search_miss(q, k)
    \/ \E s \in Spaces : TaskStart(s)
    \/ \E s \in Spaces : TaskFinish(s)
    \/ optimized_dual_search_join
    \/ \E b \in GenerationBehaviours : query_generate(b)

SpecQuery == Init /\ [][NextQuery]_vars

\* ------------------------------------------ building, saving, loading
\* One DualRAGProcessor that builds its indexes from chunk lists, saves them
\* to a directory and loads them back. builder.index[s].vectors[i] is the
\* chunk whose text was encoded into vector i of the index of space s.

\* The chunk lists handed to build_structure_index / build_content_index.
ChunkLists(s) == { << >>, << Corpus(s)[1], Corpus(s)[2] >>, << Corpus(s)[3] >> }

\* DualRAGProcessor.__init__: no index, no documents; the output directory
\* holds nothing yet.
BuilderConstruct ==
    /\ ~builder.constructed
    /\ builder' = [builder EXCEPT !.constructed = TRUE]
    /\ UNCHANGED << splitter, workflow, manager, embedder, petition >>
    /\ UNCHANGED << retrieverVars, storeVars, filterVars, geminiVars, queryVars >>

\* build_structure_index / build_content_index(chunks): return at once on an
\* empty list; else assign the documents, then encode the texts (encoded =
\* FALSE: encode raises), then make the index and add the vectors.
build_index(s, chunks, encoded) ==
    /\ builder.constructed
    /\ builder' =
         IF chunks = << >> THEN [builder EXCEPT !.raised = FALSE]
         ELSE IF ~encoded
              THEN [builder EXCEPT !.documents[s] = chunks, !.raised = TRUE]
              ELSE [builder EXCEPT !.documents[s] = chunks,
                                   !.index[s] = [built |-> TRUE, vectors |-> chunks],
                                   !.raised = FALSE]
    /\ UNCHANGED << splitter, workflow, manager, embedder, petition >>
    /\ UNCHANGED << retrieverVars, storeVars, filterVars, geminiVars, queryVars >>

\* The file writes of save_indexes in order: per space whose index is not
\* None, the index file and then the documents file.
SaveWrites ==
    LET of(s) == IF builder.index[s].built THEN << << s, "index" >>, << s, "documents" >> >>
                 ELSE << >>
    IN  of("structure") \o of("content")

\* save_indexes(output_dir), of which the first `done` file writes succeed;
\* a later write raises and ends the call.
save_indexes(done) ==
    /\ builder.constructed
    /\ done \in 0..Len(SaveWrites)
    /\ LET written(s, kind) == \E i \in 1..done : SaveWrites[i] = << s, kind >>
       IN  builder' =
             [builder EXCEPT
                !.dir = [s \in Spaces |->
                           [index |-> IF written(s, "index") THEN builder.index[s]
                                      ELSE builder.dir[s].index,
                            documents |-> IF written(s, "documents")
                                          THEN [exists |-> TRUE,
                                                records |-> builder.documents[s]]
                                          ELSE builder.dir[s].documents]],
                !.raised = (done < Len(SaveWrites))]
    /\ UNCHANGED << splitter, workflow, manager, embedder, petition >>
    /\ UNCHANGED << retrieverVars, storeVars, filterVars, geminiVars, queryVars >>

\* load_indexes(input_dir), one space, from the fields b: nothing when the
\* index file is missing; else read the index, then open the documents file,
\* which raises when that file is missing.
builder_load_space(b, s) ==
    IF ~b.dir[s].index.built THEN b
    ELSE IF ~b.dir[s].documents.exists
         THEN [b EXCEPT !.index[s] = b.dir[s].index, !.raised = TRUE]
         ELSE [b EXCEPT !.index[s] = b.dir[s].index,
                        !.documents[s] = b.dir[s].documents.records]

\* load_indexes(input_dir): structure, then content unless structure raised.
builder_load_indexes ==
    /\ builder.constructed
    /\ LET st == builder_load_space([builder EXCEPT !.raised = FALSE], "structure")
       IN  builder' = IF st.raised THEN st ELSE builder_load_space(st, "content")
    /\ UNCHANGED << splitter, workflow, manager, embedder, petition >>
    /\ UNCHANGED << retrieverVars, storeVars, filterVars, geminiVars, queryVars >>

InitBuilder ==
    /\ disk = [s \in Spaces |-> NoFile]
    /\ Unconstructed
    /\ StoreUnused
    /\ ExtraUnused

NextBuilder ==
    \/ BuilderConstruct
    \/ \E s \in Spaces : \E chunks \in ChunkLists(s), encoded \in BOOLEAN :
          build_index(s, chunks, encoded)
    \/ \E done \in 0..4 : save_indexes(done)
    \/ builder_load_indexes

SpecBuilder == InitBuilder /\ [][NextBuilder]_vars

\* ------------------------------------------------ splitting content
\* split_content_documents on one document of one section and no keywords,
\* with _split_text_by_size run one loop iteration at a time. A text is a
\* sequence of characters.

Characters == {"a", ".", " "}
SentenceEnds == {".", "!", "?"}
\* range(end, max(start, end - 100), -1) looks back at most this far.
SentenceWindow == 100

Max2(a, b) == IF a > b THEN a ELSE b

\* text[i] for an index inside -len(text) .. len(text)-1.
PyChar(text, i) == text[(IF i < 0 THEN i + Len(text) ELSE i) + 1]

\* The bound of a slice as Python normalises it.
SliceBound(text, i) ==
    IF i < 0 THEN Max2(i + Len(text), 0) ELSE IF i > Len(text) THEN Len(text) ELSE i

\* text[start:end]
PySlice(text, start, end) ==
    LET lo == SliceBound(text, start)
        hi == SliceBound(text, end)
    IN  IF lo >= hi THEN << >> ELSE SubSeq(text, lo + 1, hi)

\* str.strip()
RECURSIVE Strip(_)
Strip(text) ==
    IF text = << >> THEN << >>
    ELSE IF Head(text) = " " THEN Strip(Tail(text))
    ELSE IF text[Len(text)] = " " THEN Strip(SubSeq(text, 1, Len(text) - 1))
    ELSE text

\* The indexes the boundary scan visits from `start`, highest first.
ScanRange(text, start, chunk_size) ==
    LET end == start + chunk_size
    IN  IF end < Len(text) THEN (Max2(start, end - SentenceWindow) + 1)..end ELSE {}

\* One iteration of the while loop of _split_text_by_size from `start`:
\* the end of the chunk, or IndexError when the scan reads text[i] below
\* -len(text) before it meets a sentence end.
ChunkEnd(text, start, chunk_size) ==
    LET scan == ScanRange(text, start, chunk_size)
        found == {i \in scan : i >= -Len(text) /\ PyChar(text, i) \in SentenceEnds}
        bad == {i \in scan : i < -Len(text)}
    IN  IF found # {} THEN [raised |-> FALSE, end |-> (CHOOSE i \in found : \A j \in found : j <= i) + 1]
        ELSE IF bad # {} THEN [raised |-> TRUE, end |-> 0]
        ELSE [raised |-> FALSE, end |-> start + chunk_size]

Texts == SeqsUpTo(Characters, MaxTextLen)

\* The section text and the processor's chunk_size and chunk_overlap, with
\* 0 <= chunk_overlap < chunk_size.
InitSplit ==
    /\ \E text \in Texts, chunk_size \in 1..MaxChunkSize :
         \E chunk_overlap \in 0..(chunk_size - 1) :
            splitter = [state |-> "called", text |-> text, chunk_size |-> chunk_size,
                        chunk_overlap |-> chunk_overlap, start |-> 0, chunks |-> << >>,
                        steps |-> 0]
    /\ disk = [s \in Spaces |-> NoFile]
    /\ Unconstructed
    /\ StoreUnused
    /\ FilterUnused
    /\ GeminiUnused
    /\ QueryUnused
    /\ builder = NoBuilder
    /\ workflow = NoWorkflow
    /\ manager = NoManager
    /\ embedder = NoEmbedder
    /\ petition = NoPetition

\* split_content_documents, the section of the document: skipped when blank,
\* one chunk when it fits chunk_size, else _split_text_by_size is entered.
split_content_documents ==
    /\ splitter.state = "called"
    /\ splitter' =
         IF Strip(splitter.text) = << >>
         THEN [splitter EXCEPT !.state = "returned"]
         ELSE IF Len(splitter.text) > splitter.chunk_size
              THEN [splitter EXCEPT !.state = "running"]
              ELSE [splitter EXCEPT !.state = "returned", !.chunks = << splitter.text >>]
    /\ UNCHANGED << builder, workflow, manager, embedder, petition >>
    /\ UNCHANGED << retrieverVars, storeVars, filterVars, geminiVars, queryVars >>

\* One iteration of the loop, and the return of the chunks when the loop
\* ends (start >= len(text)).
split_text_step ==
    /\ splitter.state = "running"
    /\ splitter.steps < MaxSteps
    /\ LET e == ChunkEnd(splitter.text, splitter.start, splitter.chunk_size)
           chunk == Strip(PySlice(splitter.text, splitter.start, e.end))
           next == e.end - splitter.chunk_overlap
       IN  splitter' =
             IF e.raised THEN [splitter EXCEPT !.state = "raised", !.steps = @ + 1]
             ELSE [splitter EXCEPT
                     !.chunks = IF chunk # << >> THEN Append(@, chunk) ELSE @,
                     !.start = next,
                     !.steps = @ + 1,
                     !.state = IF next >= Len(splitter.text) THEN "returned" ELSE "running"]
    /\ UNCHANGED << builder, workflow, manager, embedder, petition >>
    /\ UNCHANGED << retrieverVars, storeVars, filterVars, geminiVars, queryVars >>

NextSplit ==
    \/ split_content_documents
    \/ split_text_step

SpecSplit == InitSplit /\ [][NextSplit]_vars

\* ------------------------------------------------ the petition workflow
\* LangGraphPetitionWorkflow: the graph of _create_workflow run one node at a
\* time on a PetitionState. A text is a sequence of tokens, "" is << >>.

UserInputs == { << >>, << "bail" >>, << "a&b" >>, << "facts", "grounds", "relief" >> }
CaseDetailsInputs == { << >>, << "petitioner_name" >> }

\* LANGRAPH_CONFIG["max_retries"]
langraph_max_retries == 3
\* len(output) < 500
MinPetitionChars == 500
\* len of "Generated petition based on XML prompt: " + xml_prompt[:100] + "..."
PlaceholderChars == 144
\* The tokens of a prompt that lie within xml_prompt[:100].
HeadTokens == 4

\* StateManager.create_initial_state
create_initial_state(user_input, case_details) ==
    [user_input |-> user_input, case_details |-> case_details,
     final_prompt |-> << >>, llm_output |-> NoOutput, validated_output |-> << >>,
     session_id |-> << "petition" >>, errors |-> None, processing_steps |-> << >>]

\* The state StateManager.add_error returns.
StateWithError(st, message) == [st EXCEPT !.errors = message]

\* The state StateManager.add_processing_step returns.
StateWithStep(st, step_name, status) ==
    [st EXCEPT !.processing_steps = Append(@, << step_name, status >>)]

\* StateManager.validate_state: every required field present and truthy.
validate_state(st) ==
    st.user_input # << >> /\ st.case_details # << >> /\ st.session_id # << >>

\* XMLPromptBuilder.build_prompt: the base template filled from the state
\* (final_prompt and errors are not read).
build_prompt(st) == << "<petition_request>", "<user_input>" >> \o st.user_input
                      \o << "</user_input>", "</petition_request>" >>

\* PromptValidator.validate_xml_structure: the prompt parses as XML.
validate_xml_structure(prompt) == \A i \in 1..Len(prompt) : prompt[i] # "a&b"

\* _call_llm: a placeholder quoting the first 100 characters of the prompt.
call_llm(xml_prompt) ==
    [text |-> << "Generated" >>
                \o SubSeq(xml_prompt, 1, IF Len(xml_prompt) < HeadTokens THEN Len(xml_prompt)
                                         ELSE HeadTokens)
                \o << "..." >>,
     chars |-> PlaceholderChars]

\* _validate_petition_output: the message, "Petition validation passed"
\* when the output is valid.
validate_petition_output(output) ==
    LET has(section) == \E i \in 1..Len(output.text) : output.text[i] = section
    IN  IF ~(has("facts") /\ has("grounds") /\ has("relief"))
        THEN "Missing required sections"
        ELSE IF output.chars < MinPetitionChars
             THEN "Generated petition is too short"
             ELSE "Petition validation passed"

\* _create_refined_prompt
create_refined_prompt(st, error_message) ==
    st.final_prompt \o << "ERROR_FEEDBACK", error_message, "Please address" >>

input_processor_node(st) ==
    IF ~validate_state(st) THEN StateWithError(st, "Invalid input state")
    ELSE StateWithStep(st, "input_processing", "success")

\* retrieve_dual_context returns chunks, or empty chunks on its own errors.
dual_rag_retriever_node(st) == StateWithStep(st, "dual_rag_retrieval", "success")

prompt_builder_node(st) ==
    IF ~validate_xml_structure(build_prompt(st))
    THEN StateWithError(st, "Invalid XML prompt structure")
    ELSE StateWithStep([st EXCEPT !.final_prompt = build_prompt(st)],
                       "prompt_building", "success")

llm_generator_node(st) ==
    IF st.final_prompt = << >> THEN StateWithError(st, "No XML prompt available")
    ELSE StateWithStep([st EXCEPT !.llm_output = call_llm(st.final_prompt)],
                       "llm_generation", "success")

output_validator_node(st) ==
    IF st.llm_output = NoOutput THEN StateWithError(st, "No LLM output to validate")
    ELSE LET message == validate_petition_output(st.llm_output)
         IN  IF message = "Petition validation passed"
             THEN StateWithStep([st EXCEPT !.validated_output = st.llm_output.text],
                                "output_validation", "success")
             ELSE StateWithStep(StateWithError(st, message), "output_validation", "error")

feedback_handler_node(st) ==
    StateWithStep([st EXCEPT !.final_prompt = create_refined_prompt(st, st.errors),
                             !.errors = None],
                  "feedback_handling", "success")

output_formatter_node(st) ==
    IF st.validated_output = << >> THEN StateWithError(st, "No validated output to format")
    ELSE StateWithStep([st EXCEPT !.validated_output = << "Generated by" >> \o @],
                       "output_formatting", "success")

\* _should_continue
should_continue(st) ==
    IF st.errors # None THEN "feedback"
    ELSE IF st.validated_output # << >> THEN "continue"
    ELSE "error"

\* The node function added under each name.
RunNode(node, st) ==
    CASE node = "input_processor" -> input_processor_node(st)
      [] node = "dual_rag_retriever" -> dual_rag_retriever_node(st)
      [] node = "prompt_builder" -> prompt_builder_node(st)
      [] node = "llm_generator" -> llm_generator_node(st)
      [] node = "output_validator" -> output_validator_node(st)
      [] node = "feedback_handler" -> feedback_handler_node(st)
      [] node = "output_formatter" -> output_formatter_node(st)

\* The edges of _create_workflow: where the graph goes after `node` has
\* returned st.
NextNode(node, st) ==
    CASE node = "input_processor" -> "dual_rag_retriever"
      [] node = "dual_rag_retriever" -> "prompt_builder"
      [] node = "prompt_builder" -> "llm_generator"
      [] node = "llm_generator" -> "output_validator"
      [] node = "output_validator" ->
            (CASE should_continue(st) = "continue" -> "output_formatter"
               [] should_continue(st) = "feedback" -> "feedback_handler"
               [] should_continue(st) = "error" -> "END")
      [] node = "feedback_handler" -> "prompt_builder"
      [] node = "output_formatter" -> "END"

\* generate_petition: create the initial state and enter the graph.
workflow_invoke(user_input, case_details) ==
    /\ workflow.node = "idle"
    /\ workflow' = [node |-> "input_processor",
                    state |-> create_initial_state(user_input, case_details),
                    supersteps |-> 0, llm_prompt |-> NoPrompt]
    /\ UNCHANGED << builder, splitter, manager, embedder, petition >>
    /\ UNCHANGED << retrieverVars, storeVars, filterVars, geminiVars, queryVars >>

\* One step of the graph: run the current node on the state, follow its
\* edge. llm_prompt is the argument of _call_llm when the node called it.
superstep ==
    /\ workflow.node \notin {"idle", "END"}
    /\ workflow.supersteps < MaxSupersteps
    /\ LET st == RunNode(workflow.node, workflow.state)
       IN  workflow' = [node |-> NextNode(workflow.node, st),
                        state |-> st,
                        supersteps |-> workflow.supersteps + 1,
                        llm_prompt |-> IF workflow.node = "llm_generator"
                                          /\ workflow.state.final_prompt # << >>
                                       THEN workflow.state.final_prompt
                                       ELSE NoPrompt]
    /\ UNCHANGED << builder, splitter, manager, embedder, petition >>
    /\ UNCHANGED << retrieverVars, storeVars, filterVars, geminiVars, queryVars >>

InitWorkflow ==
    /\ disk = [s \in Spaces |-> NoFile]
    /\ Unconstructed
    /\ StoreUnused
    /\ ExtraUnused

NextWorkflow ==
    \/ \E user_input \in UserInputs, case_details \in CaseDetailsInputs :
          workflow_invoke(user_input, case_details)
    \/ superstep

SpecWorkflow == InitWorkflow /\ [][NextWorkflow]_vars

\* ------------------------------------------------ the state manager
\* StateManager with the objects it shares with its caller. A state is a
\* dict; its processing_steps entry is a reference to a list object, and
\* manager.lists[r] is the content of list r. The caller holds the states
\* the manager has returned, which are the entries of state_history.

ManagerUpdates ==
    { [final_prompt |-> << "prompt" >>], [errors |-> "Invalid input state"] }

\* The state as its reader sees it: the list in place of its reference.
Deref(m, st) == [st EXCEPT !.processing_steps = m.lists[st.processing_steps]]

\* dict.copy() then dict.update(updates), then the new timestamp.
UpdatedState(st, updates, now) ==
    [f \in DOMAIN st |->
        IF f = "timestamp" THEN now
        ELSE IF f \in DOMAIN updates THEN updates[f] ELSE st[f]]

\* create_initial_state: a new dict with a new, empty processing_steps list,
\* appended to state_history.
manager_create_initial_state ==
    /\ Len(manager.state_history) < MaxHistory
    /\ Len(manager.lists) < 2
    /\ manager' = [state_history |->
                      Append(manager.state_history,
                             [final_prompt |-> << >>, errors |-> None,
                              processing_steps |-> Len(manager.lists) + 1,
                              timestamp |-> manager.clock + 1]),
                   lists |-> Append(manager.lists, << >>),
                   clock |-> manager.clock + 1]
    /\ UNCHANGED << builder, splitter, workflow, embedder, petition >>
    /\ UNCHANGED << retrieverVars, storeVars, filterVars, geminiVars, queryVars >>

\* update_state(current_state, updates) on the i-th state handed out.
update_state(i, updates) ==
    /\ i \in 1..Len(manager.state_history)
    /\ Len(manager.state_history) < MaxHistory
    /\ manager' = [manager EXCEPT
                     !.state_history = Append(@, UpdatedState(manager.state_history[i],
                                                              updates, manager.clock + 1)),
                     !.clock = @ + 1]
    /\ UNCHANGED << builder, splitter, workflow, embedder, petition >>
    /\ UNCHANGED << retrieverVars, storeVars, filterVars, geminiVars, queryVars >>

\* add_error(state, error_message): update_state with the error.
add_error(i, error_message) == update_state(i, [errors |-> error_message])

\* add_processing_step(state, step_name): steps = state.get("processing_steps")
\* is the state's own list; steps.append(...) writes into it; update_state
\* then stores the same list in the copy.
add_processing_step(i, step_name) ==
    /\ i \in 1..Len(manager.state_history)
    /\ Len(manager.state_history) < MaxHistory
    /\ LET st == manager.state_history[i]
           list == st.processing_steps
       IN  manager' = [state_history |->
                          Append(manager.state_history,
                                 UpdatedState(st, [processing_steps |-> list],
                                              manager.clock + 1)),
                       lists |-> [manager.lists EXCEPT
                                    ![list] = Append(@, << step_name, "success" >>)],
                       clock |-> manager.clock + 1]
    /\ UNCHANGED << builder, splitter, workflow, embedder, petition >>
    /\ UNCHANGED << retrieverVars, storeVars, filterVars, geminiVars, queryVars >>

InitManager ==
    /\ disk = [s \in Spaces |-> NoFile]
    /\ Unconstructed
    /\ StoreUnused
    /\ ExtraUnused

NextManager ==
    \/ manager_create_initial_state
    \/ \E i \in 1..MaxHistory, updates \in ManagerUpdates : update_state(i, updates)
    \/ \E i \in 1..MaxHistory : add_error(i, "LLM generation failed")
    \/ \E i \in 1..MaxHistory : add_processing_step(i, "input_processing")

SpecManager == InitManager /\ [][NextManager]_vars

\* ------------------------------------------------ cached embeddings
\* OptimizedLawgorithmRAGInterface.get_embedding_cached on an instance whose
\* fields are set as __init__ sets them (lines 17-38). embedder.lru is the
\* lru_cache of the method (maxsize 1000, never full here), embedder.files
\* the pickle files of cache_dir, one per md5 of a text; an embedding is
\* written with where it came from.

\* get_ollama_embedding: the backend's vector on status 200, else (other
\* status or exception) create_fallback_embedding(text).
get_ollama_embedding(text, backend) ==
    IF backend = "up" THEN [source |-> "backend", of |-> text]
    ELSE [source |-> "fallback", of |-> text]

\* get_local_embedding: the local model's vector, or get_ollama_embedding
\* when encode raises.
get_local_embedding(text, encoded, backend) ==
    IF encoded THEN [source |-> "local", of |-> text]
    ELSE get_ollama_embedding(text, backend)

\* The body of get_embedding_cached: the pickle file when there is one, else
\* a generated embedding.
GeneratedEmbedding(text, encoded) ==
    IF embedder.files[text] # NotCached THEN embedder.files[text]
    ELSE IF embedder.use_local_embeddings
         THEN get_local_embedding(text, encoded, embedder.backend)
         ELSE get_ollama_embedding(text, embedder.backend)

\* get_embedding_cached(text): the lru_cache entry when there is one; else
\* the body runs, writes the pickle file when it generated the embedding
\* (written = FALSE: the write raises and is passed over), and lru_cache
\* keeps what the body returned.
get_embedding_cached(text, encoded, written) ==
    /\ LET hit == embedder.lru[text] # NotCached
           embedding == IF hit THEN embedder.lru[text] ELSE GeneratedEmbedding(text, encoded)
           generated == ~hit /\ embedder.files[text] = NotCached
       IN  embedder' = [embedder EXCEPT
                          !.lru[text] = embedding,
                          !.files[text] = IF generated /\ written THEN embedding ELSE @,
                          !.ret = [text |-> text, backend |-> embedder.backend,
                                   embedding |-> embedding]]
    /\ UNCHANGED << builder, splitter, workflow, manager, petition >>
    /\ UNCHANGED << retrieverVars, storeVars, filterVars, geminiVars, queryVars >>

\* The Ollama server becomes reachable or unreachable.
BackendChange ==
    /\ embedder' = [embedder EXCEPT !.backend = IF @ = "up" THEN "down" ELSE "up"]
    /\ UNCHANGED << builder, splitter, workflow, manager, petition >>
    /\ UNCHANGED << retrieverVars, storeVars, filterVars, geminiVars, queryVars >>

\* __init__: use_local_embeddings by whether SentenceTransformer loaded;
\* nothing cached yet.
InitEmbedder ==
    /\ \E local \in BOOLEAN, backend \in {"up", "down"} :
          embedder = [NoEmbedder EXCEPT !.use_local_embeddings = local, !.backend = backend]
    /\ disk = [s \in Spaces |-> NoFile]
    /\ Unconstructed
    /\ StoreUnused
    /\ FilterUnused
    /\ GeminiUnused
    /\ QueryUnused
    /\ builder = NoBuilder
    /\ splitter = NoSplitter
    /\ workflow = NoWorkflow
    /\ manager = NoManager
    /\ petition = NoPetition

NextEmbedder ==
    \/ \E text \in Queries, encoded \in BOOLEAN, written \in BOOLEAN :
          get_embedding_cached(text, encoded, written)
    \/ BackendChange

SpecEmbedder == InitEmbedder /\ [][NextEmbedder]_vars

\* ------------------------------------------------ the petition service
\* PetitionService(rag_service, gemini_service) as main.py builds it, with
\* rag_service a RAGService. petition.generated is what
\* gemini_service.generate_text returns when it is called and petition.stored
\* what PetitionRepository.create_petition returns when it is called.

\* The methods class RAGService defines.
RAGServiceMethods ==
    {"initialize", "_load_knowledge_base", "_create_basic_knowledge_base",
     "search_relevant_documents", "get_context_for_query", "generate_legal_response",
     "health_check", "get_vector_store_stats"}

CaseTypes == {"criminal", "civil", "family"}

\* The case_details argument: a CaseDetails object, or the plain dict the
\* unit test passes.
CaseDetailsArgs == {[kind |-> k, case_type |-> c] : k \in {"CaseDetails", "dict"}, c \in CaseTypes}

\* What the generator may return: None or "" on failure, or a text.
PetitionTexts == { << "<None>" >>, << >>, << "petition" >> }

\* generate_petition, the statements of the try block in order; every
\* exception is caught and None returned.
generate_petition(case_details) ==
    /\ petition.calls < MaxCalls
    /\ LET prompt_raises == case_details.kind # "CaseDetails"
           precedents_raises == "get_legal_precedents" \notin RAGServiceMethods
           no_text == petition.generated \in { << "<None>" >>, << >> }
           saved == ~prompt_raises /\ ~precedents_raises /\ ~no_text /\ petition.stored
       IN  petition' = [petition EXCEPT
                          !.case_details = case_details,
                          !.calls = @ + 1,
                          !.petitions = IF saved THEN @ + 1 ELSE @,
                          !.ret = IF saved
                                  THEN [returned |-> TRUE, is_none |-> FALSE,
                                        petition_id |-> petition.calls + 1,
                                        petition_text |-> petition.generated,
                                        case_details |-> case_details]
                                  ELSE [NoPetitionRet EXCEPT !.returned = TRUE]]
    /\ UNCHANGED << builder, splitter, workflow, manager, embedder >>
    /\ UNCHANGED << retrieverVars, storeVars, filterVars, geminiVars, queryVars >>

\* The services behind the petition service: a generator that returns
\* petition.generated, a repository whose insert succeeds or not.
InitPetition ==
    /\ \E generated \in PetitionTexts, stored \in BOOLEAN :
          petition = [NoPetition EXCEPT !.generated = generated, !.stored = stored]
    /\ disk = [s \in Spaces |-> NoFile]
    /\ Unconstructed
    /\ StoreUnused
    /\ FilterUnused
    /\ GeminiUnused
    /\ QueryUnused
    /\ builder = NoBuilder
    /\ splitter = NoSplitter
    /\ workflow = NoWorkflow
    /\ manager = NoManager
    /\ embedder = NoEmbedder

NextPetition == \E case_details \in CaseDetailsArgs : generate_petition(case_details)

SpecPetition == InitPetition /\ [][NextPetition]_vars

\* ------------------------------------------------------------ properties
Min(a, b) == IF a < b THEN a ELSE b

\* A direct search of space s has returned its result list.
SearchReturned(s) == ret.op = SearchOp(s) /\ ret.outcome = "returned"

\* C1: after a successful load, each loaded index has as many vectors as its
\* document array has records (a mismatched pair is refused at load, so no
\* query runs against it).
C1_LoadValidatesCardinality ==
    loaded => \A s \in Spaces :
                 index_of(s).built => Len(documents_of(s)) = index_of(s).ntotal

NonIncreasingScores(results) ==
    \A i \in 1..(Len(results) - 1) : results[i].score >= results[i + 1].score

DenseRanks(results) == \A i \in 1..Len(results) : results[i].rank = i

\* C2: the results of every search are in non-increasing score order and
\* their ranks are exactly 1..len(results), for any k and any relation
\* between index cardinality and document-array length.
C2_RankOrdering ==
    \A s \in Spaces :
        SearchReturned(s) => /\ NonIncreasingScores(ret.value[s])
                             /\ DenseRanks(ret.value[s])

\* C3: a search on an index of n chunks returns at most min(k, n) entries
\* and no chunk twice; unfilled slots (label -1) produce no entry.
C3_AtMostMinKN ==
    \A s \in Spaces :
        SearchReturned(s) =>
            LET results == ret.value[s]
            IN  /\ Len(results) <= Min(ret.k, index_of(s).ntotal)
                /\ \A i, j \in 1..Len(results) :
                       results[i].doc.id = results[j].doc.id => i = j

\* retrieve(q, k) of the retriever: its cached and its uncached entry point.
RetrieveOps == {"optimized_dual_search", "dual_search"}
RetrieveFinished == ret.op \in RetrieveOps /\ ret.outcome # "none"

EmptyOrMissing(s) == ~index_of(s).built \/ index_of(s).ntotal = 0
Serving(s) == index_of(s).built /\ index_of(s).ntotal > 0

\* What a search of space s yields for (query, k) on the loaded index.
ExpectedResults(s, query, k) ==
    Search(s, index_of(s), documents_of(s), normalize_L2(Encode(query, s)), k).results

\* C5: with one index empty or missing and the other one serving, retrieve
\* does not raise and returns the serving side's results with an empty list
\* for the other side.
C5_Degradation ==
    \A s \in Spaces :
        (RetrieveFinished /\ EmptyOrMissing(s) /\ Serving(Other(s))) =>
            /\ ret.outcome = "returned"
            /\ ret.value[s] = << >>
            /\ ret.value[Other(s)] = ExpectedResults(Other(s), ret.query, ret.k)

\* C6: a cache hit returns without embedding, pre-filtering or searching, and
\* the result it returns reports a search time of zero.
C6_HitReportsZeroTime ==
    (ret.op = "optimized_dual_search" /\ ret.hit) =>
        /\ steps = {}
        /\ ret.value.search_time = 0

\* optimized_dual_search returns a value for key in this step.
ReturnsFor(key) ==
    /\ ret'.op = "optimized_dual_search"
    /\ ret'.outcome = "returned"
    /\ CacheKey(ret'.query, ret'.k) = key
    /\ \/ calls' = calls + 1
       \/ call.op = "optimized_dual_search" /\ call'.op = "idle"

C8_CacheBounded ==
    /\ Cardinality(DOMAIN query_cache) <= MaxCacheSize
    /\ Len(embedding_cache) <= MaxCacheSize

\* C9: a value stored under a cache key is neither modified nor replaced
\* while its entry stays in the cache.
C9_CacheEntriesImmutable ==
    [][/\ \A key \in DOMAIN query_cache \cap DOMAIN query_cache' :
              query_cache'[key] = query_cache[key]
       /\ \A i \in 1..Len(embedding_cache), j \in 1..Len(embedding_cache') :
              embedding_cache'[j].key = embedding_cache[i].key =>
                  embedding_cache'[j].value = embedding_cache[i].value]_vars

\* A dual search of either class is in progress.
DualSearchOps == RetrieveOps \cup {"processor_dual_search"}

\* C10: within one retrieve call both searches are scheduled as concurrent
\* tasks: a task that has not started is free to start whatever the state of
\* the other one, and the call ends only when both tasks have completed.
C10_ConcurrentTasks ==
    /\ [](\A s \in Spaces :
            (call.op \in DualSearchOps /\ task[s].state = "queued") =>
                ENABLED (TaskStart(s) \/ ProcessorTaskStart(s)))
    /\ [][(call.op \in DualSearchOps /\ call'.op = "idle") =>
              \A s \in Spaces : task[s].state = "done"]_vars

\* C4: searching an index that is unbuilt or holds zero documents returns an
\* empty result list and never raises, for every query and every k.
C4_EmptySearchReturnsEmpty ==
    /\ (store_ret.outcome # "none" /\ store.embeddings = 0) =>
           (store_ret.outcome = "returned" /\ store_ret.results = << >>)
    /\ \A s \in Spaces :
           (ret.op = SearchOp(s) /\ ret.outcome # "none" /\ EmptyOrMissing(s)
              /\ documents_of(s) = << >>) =>
               (ret.outcome = "returned" /\ ret.value[s] = << >>)

\* The pre-filtered candidates of space s for the query of the last return:
\* the documents pre_filter_documents scored above 0.
Candidates(s) ==
    {documents_of(s)[i + 1] : i \in PreFilter(documents_of(s), ret.query, metadata_filters)}

\* C11: when the pre-filtered candidate count of a space is at least k, the
\* vector search is restricted to the candidates: every result retrieve
\* returns for that space is a pre-filtered candidate (a chunk that scored 0
\* is never returned).
C11_ResultsAreCandidates ==
    \A s \in Spaces :
        (ret.op = "optimized_dual_search" /\ ret.outcome = "returned"
           /\ Cardinality(Candidates(s)) >= ret.k) =>
            \A i \in 1..Len(ret.value[s]) : ret.value[s][i].doc \in Candidates(s)

PreFilterReturned == filter_ret.op = "pre_filter_documents" /\ filter_ret.outcome = "returned"

\* C12: the pre-filter never raises, whatever the query and the corpus
\* records (missing or null court/title included), and for a query that
\* matches no case type and no court the candidate pool of each space is the
\* whole document array.
C12_PreFilterNeverRaises ==
    filter_ret.op = "pre_filter_documents" =>
        /\ filter_ret.outcome = "returned"
        /\ (filter_ret.case_type = None /\ filter_ret.courts = {}) =>
               \A s \in Spaces :
                   filter_ret.candidates[s] = 0..(Len(documents_of(s)) - 1)

\* The documents of the loaded retriever that carry a title.
TitledDocuments ==
    {d \in UNION {{documents_of(s)[i] : i \in 1..Len(documents_of(s))} : s \in Spaces} :
        d.title # AbsentField /\ d.title # NullField}

\* C13: a string gets the same case-type tag as a document title (at filter
\* build and at candidate scoring) and as a query; so when the query is the
\* title of a document and has a tag, the tag is in the filter index and the
\* document is a candidate.
C13_SameTagFunction ==
    loaded =>
        \A d \in TitledDocuments :
            /\ BuildCaseType(d) = QueryCaseType(d.title)
            /\ TitleCaseType(d) = QueryCaseType(d.title)
            /\ (PreFilterReturned /\ filter_ret.query = d.title
                  /\ filter_ret.case_type # None) =>
                   /\ filter_ret.case_type \in metadata_filters.case_types
                   /\ \A s \in Spaces : \A i \in 1..Len(documents_of(s)) :
                          documents_of(s)[i] = d => (i - 1) \in filter_ret.candidates[s]

C13_Witness ==
    /\ PreFilterReturned
    /\ filter_ret.case_type = "contract"
    /\ \E d \in TitledDocuments : d.title = filter_ret.query /\ Len(d.title) = 2

\* C14: after the builder saved its {text, metadata} records and the
\* retriever loaded them, the filter index holds the court of every chunk
\* whose metadata has a court and the case-type tag of every chunk whose
\* title matches the taxonomy.
C14_FilterIndexFromBuilderRecords ==
    loaded =>
        \A s \in Spaces : \A i \in 1..Len(documents_of(s)) :
            LET md == documents_of(s)[i].metadata
            IN  md.section # "none" =>
                  /\ (md.court # << >> /\ md.court # NullField) =>
                         md.court \in metadata_filters.courts
                  /\ extract_case_type(md.title) # None =>
                         extract_case_type(md.title) \in metadata_filters.case_types

\* C15: when the embedding backend is unreachable or answers with an error,
\* embed fails explicitly: the search raises and no result is ranked against
\* a substitute vector.
C15_NoSubstituteVector ==
    (store_ret.outcome # "none" /\ ~store_ret.reply.ok) =>
        /\ store_ret.source # "fallback"
        /\ store_ret.outcome = "raised"
        /\ store_ret.results = << >>

\* The last search on the store got a query vector of another dimension
\* than the store's.
DimensionMismatched ==
    /\ store_ret.outcome # "none"
    /\ store_ret.source = "backend"
    /\ store_ret.reply.dim # "equal"

\* C16: a search with a query vector of another dimension than the index
\* resolves the mismatch deterministically (the same query vector against
\* the same store yields the same results) and does not fail with an
\* exception other than DimensionMismatch, which this code never raises.
C16_MismatchResolvedDeterministically ==
    [][ (DimensionMismatched /\ DimensionMismatched'
           /\ store' = store
           /\ store_ret'.query = store_ret.query /\ store_ret'.top_k = store_ret.top_k
           /\ store_ret'.reply = store_ret.reply)
        => (store_ret'.outcome = "returned" /\ store_ret' = store_ret) ]_vars

\* C17: every query vector a search compares with the index has gone through
\* L2 normalisation first: the embedding a finished search used has norm 1.
C17_QueryNormalizedBeforeSearch ==
    \A s \in Spaces :
        (task[s].state = "done" /\ task[s].emb # NoEmbedding) => task[s].emb.norm = 1

\* C18: whatever the generation backend does (text, exception or empty
\* response on every call), the retry loop makes at most max_retries
\* generation attempts.
C18_AtMostMaxRetriesAttempts == retry.attempts <= max_retries

\* C19: when generation fails (error status, exception or timeout), query
\* reports a typed failure; the response field, which carries generated
\* text, holds no apology or error sentence.
C19_GenerationFailureIsTyped ==
    (query_ret.outcome # "none" /\ query_ret.generation \in {"status", "exception"}) =>
        /\ query_ret.outcome = "failed"
        /\ query_ret.response = << >>

\* C20: each context is built from the top results of its space in rank
\* order, each chunk cut to the per-chunk budget, so a context is never
\* longer than two budgets and one separator.
C20_ContextBounded ==
    query_ret.outcome = "returned" =>
        \A c \in {query_ret.structure_context, query_ret.content_context} :
            Len(c) <= 2 * ContextBudget + 1

\* C21: when the search of a query raises, query continues with empty
\* structure and content context, still calls the generator and returns a
\* response instead of propagating the exception.
C21_SearchFailureDegrades ==
    (query_ret.call_no = calls /\ query_ret.outcome # "none" /\ ret.outcome = "raised") =>
        /\ query_ret.outcome = "returned"
        /\ query_ret.generation # "none"
        /\ query_ret.structure_context = << >>
        /\ query_ret.content_context = << >>

\* The texts of all listed sources, joined as a context is.
SourcesText(sources) ==
    Join([i \in 1..Len(sources) |-> GetText(sources[i].doc, "text")])

\* C22: the documents listed as structure_sources and content_sources are
\* exactly those whose text is in the context handed to the generator.
C22_SourcesAreContext ==
    query_ret.outcome = "returned" =>
        /\ query_ret.structure_context = SourcesText(query_ret.structure_sources)
        /\ query_ret.content_context = SourcesText(query_ret.content_sources)

\* C23: in every state reached by building, saving and loading, a space's
\* documents are the chunks embedded in its index, position by position
\* (so both have the same length), in memory and in the saved files.
C23_DocumentsMatchIndex ==
    \A s \in Spaces :
        /\ builder.index[s].built => builder.documents[s] = builder.index[s].vectors
        /\ builder.dir[s].index.built =>
              /\ builder.dir[s].documents.exists
              /\ builder.dir[s].documents.records = builder.dir[s].index.vectors

\* C25: every chunk made from a section of a content document has at most
\* chunk_size characters.
C25_ChunkWithinSize ==
    splitter.state = "returned" =>
        \A i \in 1..Len(splitter.chunks) : Len(splitter.chunks[i]) <= splitter.chunk_size

\* C26: each iteration of _split_text_by_size moves start strictly forward,
\* and start is never negative.
C26_StartAdvances ==
    [][(splitter.state = "running" /\ splitter'.state \in {"running", "returned"}) =>
          (splitter'.start > splitter.start /\ splitter'.start >= 0)]_vars

\* How many times the feedback handler has run on the state.
FeedbackRounds(st) ==
    Cardinality({i \in 1..Len(st.processing_steps) :
                    st.processing_steps[i][1] = "feedback_handling"})

\* C27: the loop output_validator -> feedback_handler -> prompt_builder ->
\* llm_generator -> output_validator is traversed at most max_retries times.
C27_FeedbackLoopBounded ==
    workflow.node # "idle" => FeedbackRounds(workflow.state) <= langraph_max_retries

\* C28: after a failed validation, the prompt handed to the next LLM
\* generation is the refined prompt, which carries the ERROR_FEEDBACK text.
C28_RefinedPromptReachesLlm ==
    (workflow.llm_prompt # NoPrompt /\ FeedbackRounds(workflow.state) > 0) =>
        \E i \in 1..Len(workflow.llm_prompt) : workflow.llm_prompt[i] = "ERROR_FEEDBACK"

\* C29: a state appended to state_history reads the same after every later
\* update_state, add_processing_step and add_error; the state passed in,
\* itself an entry of the history, is left as it was.
C29_HistoryEntriesFrozen ==
    [][\A i \in 1..Len(manager.state_history) :
          Deref(manager', manager'.state_history[i]) = Deref(manager, manager.state_history[i])]_vars

C24_GeneratedPetitionReturned ==
    (petition.ret.returned /\ petition.case_details.kind = "CaseDetails"
       /\ petition.generated = << "petition" >> /\ petition.stored) =>
        /\ ~petition.ret.is_none
        /\ petition.ret.petition_id > 0
        /\ petition.ret.petition_text = petition.generated
        /\ petition.ret.case_details.case_type = petition.case_details.case_type

====
